---- MODULE Spec2Model ----
(***************************************************************************)
(* A model of the uniroam test bed: the C2 server's database and HTTP      *)
(* handlers (uniroam/c2_server.py), the command sandbox                    *)
(* (command_sandbox.py) and the device simulator (robot_simulator.py).     *)
(*                                                                         *)
(* Text is modelled as a sequence of characters (the Authorization header) *)
(* or of byte values (protocol frames, shell commands), so that            *)
(* str.replace, str.lower, the substring test and the printable-ASCII      *)
(* filter are computed as the code computes them.                          *)
(***************************************************************************)
EXTENDS Integers, Sequences, FiniteSets, TLC

VARIABLES
    \* ---- C2 server: the four tables the handlers touch, the clock, and
    \*      the request just handled with its response
    robots,      \* robots table: robot_id -> row
    beacons,     \* beacons table: sequence of rows in AUTOINCREMENT order
    events,      \* events table: sequence of rows in AUTOINCREMENT order
    tasks,       \* tasks table: task id -> row
    now,         \* datetime.now(), advanced by every handled request
    req,         \* the HTTP request handled last
    resp,        \* its response: [status, body]
    delivered,   \* history: task id -> number of polls that returned it
    \* ---- device simulator and its sandbox
    serial,            \* UnitreeSimulator.serial (bytes)
    sandbox_type,      \* CommandSandbox.sandbox_type (config.SANDBOX_TYPE)
    allow_propagation, \* config.SANDBOX_ALLOW_PROPAGATION
    is_infected,       \* UnitreeSimulator.is_infected
    infection_time,    \* UnitreeSimulator.infection_time
    worm_process,      \* UnitreeSimulator.worm_process (NULL or a pid)
    spawned,           \* history: pids of every agent process started
    command_history,   \* CommandSandbox.command_history
    log_file,          \* the lines of sandbox.log
    backend_calls,     \* history: commands handed to an execution backend
    sim_clock,         \* datetime.now() of the simulator's process
    frame,             \* the decrypted frame of the write handled last
    sim_out,           \* outcome of the call handled last: [kind, ...]
    n_exec,            \* history: number of execute calls that were not blocked
    n_blocked,         \* history: number of execute calls that were blocked
    \* ---- pure functions of the codec, the simulator and the payload builder
    fn,                \* the function applied last
    arg,               \* its argument
    ret,               \* what it returned
    \* ---- InfectionTracker (uniroam/propagation_engine.py)
    infected,          \* InfectionTracker.infected: set of addresses
    failed,            \* InfectionTracker.failed: address -> failure count
    infection_times,   \* InfectionTracker.infection_times
    history_file,      \* the JSON file at config.INFECTION_HISTORY_PATH
    clock,             \* datetime.now() of the agent's process
    tracker_out,       \* the tracker call made last: [op, address, result]
    marked,            \* history: the time of every mark_infected call
    failures_since,    \* history: address -> mark_failed calls since the last
                       \*   mark_infected of it, or since construction
    carried,           \* history: address -> failure count the tracker was
                       \*   constructed with, until a mark_infected of it
    tracker_calls,     \* history: calls that changed the tracker so far
    \* ---- WormPropagator (uniroam/propagation_engine.py)
    propagation_enabled, \* WormPropagator.propagation_enabled
    active_infections,   \* WormPropagator.active_infections
    total_infected,      \* WormPropagator.total_infected
    scan_count,          \* WormPropagator.scan_count
    pc,                  \* where propagate_ble stands
    attempts,            \* the infect_target tasks of this iteration
    found,               \* the targets the last scan returned
    faults,              \* history: exploits that failed, callbacks that raised
    \* ---- WormAgent and its beacon loop (uniroam/worm_agent.py)
    running,           \* WormAgent.running
    agent_at,          \* where beacon_loop stands
    last_beacon,       \* C2Client.last_beacon
    fetched,           \* the tasks get_tasks returned in this iteration
    task_index,        \* the position of `for task in tasks`
    task_result,       \* what execute_task returned for the current task
    journal,           \* history: the executions and reports of this iteration
    last_failure,      \* history: what failed in the step taken last
    exit_cause,        \* history: what ended the agent's process
    agent_clock,       \* datetime.now() of the agent, in ticks of 12 hours
    \* ---- VirtualBLEConnection and its VirtualBLEDevice (virtual_ble.py)
    is_connected,            \* VirtualBLEConnection.is_connected
    device_connected,        \* VirtualBLEDevice.connected
    characteristics,         \* VirtualBLEDevice.characteristics: uuid -> bytes
    notification_callbacks,  \* VirtualBLEDevice.notification_callbacks
    handled,                 \* history: the writes handed to the simulator
    ble_out,                 \* the connection call made last and its outcome
    \* ---- TestPropagationSimulation (uniroam/test_worm.py)
    infected_robots,   \* SimulatedRobotEnvironment.infected_robots
    iteration,         \* simulate_propagation: iteration
    elapsed,           \* time.time() - start_time, in sleeps of 5 s
    newly_infected,    \* simulate_propagation: newly_infected (names)
    results,           \* TestPropagationSimulation.results
    test_at,           \* where simulate_propagation stands
    \* ---- SimulatorCoordinator (sim_coordinator.py)
    simulators,        \* SimulatorCoordinator.simulators
    metrics,           \* SimulatorCoordinator.metrics
    status_out,        \* what get_propagation_status returned last
    \* ---- two simulators of one configuration, one after the other
    handshaken,        \* history: this simulator has answered a handshake with success
    observed,          \* history: the instruction-3 and -4 packets handled so far
    sim_runs,          \* history: the simulators constructed so far
    \* ---- a get_pending_tasks call beside other connections (c2_server.py)
    poll_at,           \* where the get_pending_tasks call stands
    selected,          \* the rows its SELECT fetched
    marked_sent        \* history: the ids its UPDATE changed to 'sent'

c2vars  == <<robots, beacons, events, tasks, now, req, resp, delivered>>
simvars == <<serial, sandbox_type, allow_propagation, is_infected,
             infection_time, worm_process, spawned, command_history,
             log_file, backend_calls, sim_clock, frame, sim_out, n_exec,
             n_blocked>>
purevars == <<fn, arg, ret>>
trackervars == <<infected, failed, infection_times, history_file, clock,
                 tracker_out, marked, failures_since, carried, tracker_calls>>
propvars == <<propagation_enabled, active_infections, total_infected,
              scan_count, pc, attempts, found, faults>>
agentvars == <<running, agent_at, last_beacon, fetched, task_index,
               task_result, journal, last_failure, exit_cause, agent_clock>>
blevars == <<is_connected, device_connected, characteristics,
             notification_callbacks, handled, ble_out>>
testvars == <<infected_robots, iteration, elapsed, newly_infected, results,
              test_at>>
coordvars == <<simulators, metrics, status_out>>
sessionvars == <<handshaken, observed, sim_runs>>
pollvars == <<poll_at, selected, marked_sent>>
extvars == <<agentvars, blevars, testvars, coordvars, sessionvars, pollvars>>
vars    == <<c2vars, simvars, purevars, trackervars, propvars, extvars>>

(***************************************************************************)
(* Bounds of the model                                                     *)
(***************************************************************************)
MaxRequests == 3   \* C2 requests that write a row, in one behaviour
MaxTasks    == 3   \* tokens the task-id generator can hand out
MaxWrites   == 2   \* simulator calls (writes, force_infect) in one behaviour

NULL   == "<null>"     \* Python None / SQL NULL, where text is expected
ABSENT == "<absent>"   \* a key that is not in the JSON body, a missing header
NoText == <<>>         \* SQL NULL in a column that holds JSON text
NoTime == -1           \* None / SQL NULL where a timestamp is expected

RECURSIVE SeqSum(_)
SeqSum(s) == IF s = <<>> THEN 0 ELSE s[1] + SeqSum(Tail(s))

Min(a, b) == IF a < b THEN a ELSE b

\* s[i:j] of Python for 0 <= i, with j clipped to len(s) (j may be negative:
\* it then counts from the end)
Slice(s, i, j) ==
    LET jj == IF j < 0 THEN Len(s) + j ELSE Min(j, Len(s))
    IN  IF jj <= i THEN <<>> ELSE SubSeq(s, i + 1, jj)

\* needle in hay, for sequences
Contains(hay, needle) ==
    \E i \in 0..(Len(hay) - Len(needle)) :
        SubSeq(hay, i + 1, i + Len(needle)) = needle

StartsWith(s, p) == Len(s) >= Len(p) /\ SubSeq(s, 1, Len(p)) = p

\* s.replace(old, ""): every non-overlapping occurrence, left to right
RECURSIVE StrRemoveAll(_, _)
StrRemoveAll(s, old) ==
    IF Len(s) < Len(old) \/ old = <<>> THEN s
    ELSE IF SubSeq(s, 1, Len(old)) = old
         THEN StrRemoveAll(SubSeq(s, Len(old) + 1, Len(s)), old)
         ELSE <<s[1]>> \o StrRemoveAll(Tail(s), old)


(***************************************************************************)
(* C2 server: configuration and authentication                             *)
(***************************************************************************)
C2_API_KEY == "worm-operator-key-change-me"

\* "Bearer " as characters
BearerPrefix == <<"B", "e", "a", "r", "e", "r", " ">>

\* hashlib.sha256(config.C2_OPERATOR_PASSWORD.encode()).hexdigest(): a fixed
\* string of hexadecimal digits (shortened to four digits here)
OperatorDigest == <<"8", "c", "6", "9">>
WrongDigest    == <<"0", "0", "0", "0">>

\* verify_api_key: the status the dependency resolves to (200 = passes);
\* Header(...) makes the header mandatory, so a missing one is a 422
verify_api_key(x_api_key) ==
    IF x_api_key = ABSENT THEN 422
    ELSE IF x_api_key # C2_API_KEY THEN 401
    ELSE 200

\* a request without the Authorization header
NoHeader == <<ABSENT>>

\* verify_operator_auth
verify_operator_auth(authorization) ==
    IF authorization = NoHeader THEN 422
    ELSE IF ~StartsWith(authorization, BearerPrefix) THEN 401
    ELSE LET token == StrRemoveAll(authorization, BearerPrefix)
         IN  IF token # OperatorDigest THEN 401 ELSE 200

\* a handler that never checks its fields
FalsyNever(v) == FALSE

\* Python truthiness of a body field: `not v`
Falsy(v) == v \in {ABSENT, NULL, "", "{}"}

\* dict.get(key): None when the key is absent
Get(v) == IF v = ABSENT THEN NULL ELSE v

\* json.dumps(v): the stored text is the JSON encoding of the value
JsonDumps(v) == <<"json", v>>

(***************************************************************************)
(* C2Database                                                              *)
(***************************************************************************)
\* register_robot written as INSERT OR REPLACE
register_robot_replace(rb, robot_id, data, t) ==
    [id \in DOMAIN rb \cup {robot_id} |->
        IF id = robot_id
        THEN [first_seen      |-> t,
              last_seen       |-> t,
              platform        |-> Get(data.platform),
              hostname        |-> Get(data.hostname),
              status          |-> "active",
              parent_id       |-> NULL,
              infection_depth |-> 0]
        ELSE rb[id]]

\* register_robot: upsert by robot_id
register_robot(rb, robot_id, data, t) ==
    IF robot_id \in DOMAIN rb
    THEN [rb EXCEPT ![robot_id] =
             [@ EXCEPT !.last_seen = t,
                       !.platform  = Get(data.platform),
                       !.hostname  = Get(data.hostname),
                       !.status    = "active"]]
    ELSE rb @@ (robot_id :>
             [first_seen      |-> t,
              last_seen       |-> t,
              platform        |-> Get(data.platform),
              hostname        |-> Get(data.hostname),
              status          |-> "active",
              parent_id       |-> NULL,
              infection_depth |-> 0])

\* log_beacon: append-only insert
log_beacon(bs, robot_id, data, t) ==
    Append(bs, [id |-> Len(bs) + 1, robot_id |-> robot_id, timestamp |-> t,
                data |-> JsonDumps(data)])

\* log_event: append-only insert
log_event(es, robot_id, event_type, event_data, t) ==
    Append(es, [id |-> Len(es) + 1, robot_id |-> robot_id,
                event_type |-> event_type,
                event_data |-> JsonDumps(event_data), timestamp |-> t])

\* C2Database.create_task: the INSERT; the caller supplies the random token
db_create_task(ts, task_id, robot_id, task_type, params, t) ==
    ts @@ (task_id :>
             [robot_id     |-> robot_id,
              task_type    |-> task_type,
              params       |-> JsonDumps(params),
              created_at   |-> t,
              status       |-> "pending",
              result       |-> NoText,
              completed_at |-> NoTime,
              rowid        |-> Cardinality(DOMAIN ts) + 1])

\* the WHERE clause of the SELECT written as `status != 'completed'`
PendingIdsOrSent(ts, robot_id) ==
    {id \in DOMAIN ts : ts[id].robot_id = robot_id /\ ts[id].status # "completed"}

\* the ids of the robot's pending tasks
PendingIds(ts, robot_id) ==
    {id \in DOMAIN ts : ts[id].robot_id = robot_id /\ ts[id].status = "pending"}

\* ORDER BY created_at DESC
RECURSIVE OrderByCreatedAtDesc(_, _)
OrderByCreatedAtDesc(ts, ids) ==
    IF ids = {} THEN <<>>
    ELSE LET first == CHOOSE id \in ids : \A o \in ids :
                         \/ ts[id].created_at > ts[o].created_at
                         \/ ts[id].created_at = ts[o].created_at /\ ts[id].rowid >= ts[o].rowid
         IN  <<first>> \o OrderByCreatedAtDesc(ts, ids \ {first})

\* ORDER BY created_at ASC (rows with equal created_at in rowid order)
RECURSIVE OrderByCreatedAt(_, _)
OrderByCreatedAt(ts, ids) ==
    IF ids = {} THEN <<>>
    ELSE LET first == CHOOSE id \in ids : \A o \in ids :
                         \/ ts[id].created_at < ts[o].created_at
                         \/ ts[id].created_at = ts[o].created_at /\ ts[id].rowid <= ts[o].rowid
         IN  <<first>> \o OrderByCreatedAt(ts, ids \ {first})

\* get_pending_tasks without the UPDATE that marks the rows sent
get_pending_tasks_unmarked(ts, robot_id) ==
    LET ids == OrderByCreatedAt(ts, PendingIds(ts, robot_id))
    IN  [returned |-> [i \in 1..Len(ids) |->
                          [id     |-> ids[i],
                           type   |-> ts[ids[i]].task_type,
                           params |-> ts[ids[i]].params[2]]],
         table    |-> ts]

\* get_pending_tasks: the SELECT, then the UPDATE that marks them sent
get_pending_tasks(ts, robot_id) ==
    LET ids == OrderByCreatedAt(ts, PendingIds(ts, robot_id))
    IN  [returned |-> [i \in 1..Len(ids) |->
                          [id     |-> ids[i],
                           type   |-> ts[ids[i]].task_type,
                           params |-> ts[ids[i]].params[2]]],
         table    |-> [id \in DOMAIN ts |->
                          IF ts[id].robot_id = robot_id /\ ts[id].status = "pending"
                          THEN [ts[id] EXCEPT !.status = "sent"]
                          ELSE ts[id]]]

\* update_task_result with the WHERE clause left out
update_task_result_every_row(ts, task_id, result, t) ==
    [id \in DOMAIN ts |->
        [ts[id] EXCEPT !.status = "completed",
                       !.result = JsonDumps(result),
                       !.completed_at = t]]

\* update_task_result: UPDATE ... WHERE id = ?
update_task_result(ts, task_id, result, t) ==
    [id \in DOMAIN ts |->
        IF id = task_id
        THEN [ts[id] EXCEPT !.status = "completed",
                            !.result = JsonDumps(result),
                            !.completed_at = t]
        ELSE ts[id]]

\* get_all_robots: ORDER BY last_seen DESC (only the ids are used)
RECURSIVE OrderByLastSeenDesc(_, _)
OrderByLastSeenDesc(rb, ids) ==
    IF ids = {} THEN <<>>
    ELSE LET first == CHOOSE id \in ids : \A o \in ids :
                         rb[id].last_seen >= rb[o].last_seen
         IN  <<first>> \o OrderByLastSeenDesc(rb, ids \ {first})

get_all_robots(rb) == OrderByLastSeenDesc(rb, DOMAIN rb)


(***************************************************************************)
(* HTTP requests and responses                                             *)
(***************************************************************************)
TokenPool == <<"t1", "t2", "t3", "t4", "t5">>
Tokens    == {TokenPool[i] : i \in 1..MaxTasks}

\* secrets.token_hex(8): a token not in use (the first of the pool stands for
\* any of them) or, by chance, the id of an existing row
NextToken(ts)       == TokenPool[CHOOSE i \in 1..MaxTasks :
                           /\ TokenPool[i] \notin DOMAIN ts
                           /\ \A j \in 1..(i - 1) : TokenPool[j] \in DOMAIN ts]
CandidateTokens(ts) == IF Tokens \subseteq DOMAIN ts THEN {}
                       ELSE DOMAIN ts \cup {NextToken(ts)}

EmptyBody ==
    [robot_id |-> ABSENT, platform |-> ABSENT, hostname |-> ABSENT,
     event_type |-> ABSENT, event_data |-> ABSENT, task_id |-> ABSENT,
     result |-> ABSENT, task_type |-> ABSENT, params |-> <<>>,
     command |-> ABSENT]

Request(endpoint, x_api_key, authorization, path_robot_id, body) ==
    [endpoint |-> endpoint, x_api_key |-> x_api_key,
     authorization |-> authorization, path_robot_id |-> path_robot_id,
     body |-> body]

GoodBearer   == BearerPrefix \o OperatorDigest
\* Authorization headers whose bearer token is not the digest
WrongToken   == BearerPrefix \o WrongDigest
NoScheme     == OperatorDigest
DoubleScheme == BearerPrefix \o BearerPrefix \o OperatorDigest
BadBearers   == {WrongToken, NoScheme, DoubleScheme}

BeaconBody(robot_id, platform, ev) ==
    [EmptyBody EXCEPT !.robot_id = robot_id, !.platform = platform,
                      !.hostname = "go2",
                      !.event_type = IF ev = "none" THEN ABSENT ELSE "infection_success",
                      !.event_data = IF ev = "both" THEN "AA:01" ELSE ABSENT]

BeaconRequests ==
    {Request("beacon", C2_API_KEY, NoHeader, ABSENT, BeaconBody(b[1], b[2], b[3])) :
        b \in {<<"r1", "linux", "none">>, <<"r1", "arm", "both">>,
               <<"r2", "linux", "type">>, <<ABSENT, "linux", "both">>}}
    \cup {Request("beacon", k, NoHeader, ABSENT, BeaconBody("r1", "linux", "both")) :
            k \in {"wrong-key", ABSENT}}

TaskFetchRequests ==
    {Request("tasks", C2_API_KEY, NoHeader, r, EmptyBody) : r \in {"r1", "r2"}}
    \cup {Request("tasks", "wrong-key", NoHeader, "r1", EmptyBody)}

ReportBody(task_id, result) ==
    [EmptyBody EXCEPT !.robot_id = "r1", !.task_id = task_id, !.result = result]

ReportRequests ==
    {Request("report", C2_API_KEY, NoHeader, ABSENT, ReportBody(t, "res1")) :
        t \in Tokens \cup {ABSENT}}
    \cup {Request("report", C2_API_KEY, NoHeader, ABSENT, ReportBody("t1", x)) :
            x \in {"res2", ABSENT}}
    \cup {Request("report", "wrong-key", NoHeader, ABSENT, ReportBody("t1", "res1"))}

TaskBody(robot_id, task_type) ==
    [EmptyBody EXCEPT !.robot_id = robot_id, !.task_type = task_type]

OperatorTaskRequests ==
    {Request("operator/task", ABSENT, GoodBearer, ABSENT, TaskBody(b[1], b[2])) :
        b \in {<<"r1", "PROPAGATE_STOP">>, <<"*", "SELF_DESTRUCT">>,
               <<ABSENT, "PROPAGATE_STOP">>, <<"r1", ABSENT>>}}
    \cup {Request("operator/task", ABSENT, h, ABSENT, TaskBody("r1", "PROPAGATE_STOP")) :
            h \in BadBearers}

CommandBody(robot_id, command) ==
    [EmptyBody EXCEPT !.robot_id = robot_id, !.command = command]

OperatorCommandRequests ==
    {Request("operator/command", ABSENT, GoodBearer, ABSENT, CommandBody(b[1], b[2])) :
        b \in {<<"r1", "id">>, <<ABSENT, "id">>, <<"r1", ABSENT>>}}
    \cup {Request("operator/command", ABSENT, h, ABSENT, CommandBody("r1", "id")) :
            h \in {WrongToken, NoHeader}}

Reply(status, detail) ==
    [status |-> status, detail |-> detail, tasks |-> <<>>, task_ids |-> <<>>]

\* an HTTPException raised before any database call
Rejected(r, status, detail) ==
    /\ req' = r
    /\ resp' = Reply(status, detail)
    /\ UNCHANGED <<robots, beacons, events, tasks, now, delivered>>


(***************************************************************************)
(* Agent API endpoints.  The clock `now` is a logical one: it advances     *)
(* with every request that writes a row.                                   *)
(***************************************************************************)
AuthDetail(status) == IF status = 401 THEN "Invalid API key" ELSE "Field required"

Tick(changed) == now' = IF changed THEN now + 1 ELSE now

\* POST /api/v1/beacon
beacon(r) ==
    /\ r.endpoint = "beacon"
    /\ LET auth     == verify_api_key(r.x_api_key)
           data     == r.body
           robot_id == Get(data.robot_id)
       IN  IF auth # 200 THEN Rejected(r, auth, AuthDetail(auth))
           ELSE IF Falsy(robot_id) THEN Rejected(r, 400, "Missing robot_id")
           ELSE /\ now < MaxRequests
                /\ robots'  = register_robot(robots, robot_id, data, now)
                /\ beacons' = log_beacon(beacons, robot_id, data, now)
                /\ events'  = IF data.event_type # ABSENT /\ data.event_data # ABSENT
                              THEN log_event(events, robot_id, data.event_type,
                                             data.event_data, now)
                              ELSE events
                /\ Tick(TRUE)
                /\ req'  = r
                /\ resp' = Reply(200, "ok")
                /\ UNCHANGED <<tasks, delivered>>

\* GET /api/v1/tasks/{robot_id}
get_tasks(r) ==
    /\ r.endpoint = "tasks"
    /\ LET auth == verify_api_key(r.x_api_key)
           poll == get_pending_tasks(tasks, r.path_robot_id)
       IN  IF auth # 200 THEN Rejected(r, auth, AuthDetail(auth))
           ELSE /\ now < MaxRequests
                /\ tasks' = poll.table
                /\ delivered' =
                       [id \in DOMAIN delivered |->
                           IF \E i \in 1..Len(poll.returned) : poll.returned[i].id = id
                           THEN delivered[id] + 1 ELSE delivered[id]]
                /\ Tick(poll.table # tasks)
                /\ req'  = r
                /\ resp' = [Reply(200, "ok") EXCEPT !.tasks = poll.returned]
                /\ UNCHANGED <<robots, beacons, events>>

\* POST /api/v1/report
report_result(r) ==
    /\ r.endpoint = "report"
    /\ LET auth    == verify_api_key(r.x_api_key)
           task_id == Get(r.body.task_id)
           result  == Get(r.body.result)
       IN  IF auth # 200 THEN Rejected(r, auth, AuthDetail(auth))
           ELSE IF Falsy(task_id) \/ Falsy(result)
                THEN Rejected(r, 400, "Missing task_id or result")
           ELSE /\ now < MaxRequests
                /\ tasks' = update_task_result(tasks, task_id, result, now)
                /\ Tick(task_id \in DOMAIN tasks)
                /\ req'  = r
                /\ resp' = Reply(200, "ok")
                /\ UNCHANGED <<robots, beacons, events, delivered>>

(***************************************************************************)
(* Operator API endpoints                                                  *)
(***************************************************************************)
OperatorAuthDetail(status, authorization) ==
    IF status = 422 THEN "Field required"
    ELSE IF ~StartsWith(authorization, BearerPrefix) THEN "Invalid authorization"
    ELSE "Unauthorized"

\* the wildcard loop of create_task: one db.create_task per robot, each its
\* own commit; the collideAt-th token (0: none) repeats an existing id, the
\* INSERT raises and the rows created before it stay
RECURSIVE CreateForAll(_, _, _, _, _, _)
CreateForAll(ts, ids, task_type, params, t, collideAt) ==
    IF ids = <<>> THEN [table |-> ts, task_ids |-> <<>>, raised |-> FALSE]
    ELSE IF collideAt = 1 THEN [table |-> ts, task_ids |-> <<>>, raised |-> TRUE]
    ELSE LET token == NextToken(ts)
             rest  == CreateForAll(
                          db_create_task(ts, token, ids[1], task_type, params, t),
                          Tail(ids), task_type, params, t,
                          IF collideAt = 0 THEN 0 ELSE collideAt - 1)
         IN  [rest EXCEPT !.task_ids = <<token>> \o @]

\* db.create_task(robot_id, ...) from an endpoint, for one robot: the INSERT
\* raises when the token repeats an existing id
CreateOne(r, robot_id, task_type, params) ==
    /\ now < MaxRequests
    /\ \E token \in CandidateTokens(tasks) :
          IF token \in DOMAIN tasks
          THEN /\ resp' = Reply(500, "Internal Server Error")
               /\ UNCHANGED <<tasks, now>>
          ELSE /\ tasks' = db_create_task(tasks, token, robot_id, task_type, params, now)
               /\ resp' = [Reply(200, "ok") EXCEPT !.task_ids = <<token>>]
               /\ Tick(TRUE)
    /\ req' = r
    /\ UNCHANGED <<robots, beacons, events, delivered>>

\* POST /api/v1/operator/task
create_task(r) ==
    /\ r.endpoint = "operator/task"
    /\ LET auth      == verify_operator_auth(r.authorization)
           data      == r.body
           robot_id  == Get(data.robot_id)
           task_type == Get(data.task_type)
           params    == data.params
           all       == get_all_robots(robots)
       IN  IF auth # 200
           THEN Rejected(r, auth, OperatorAuthDetail(auth, r.authorization))
           ELSE IF Falsy(robot_id) \/ Falsy(task_type)
                THEN Rejected(r, 400, "Missing robot_id or task_type")
           ELSE IF robot_id = "*"
           THEN /\ now < MaxRequests
                /\ Cardinality(DOMAIN tasks) + Len(all) <= MaxTasks
                /\ \E collideAt \in 0..(IF DOMAIN tasks = {} THEN 0 ELSE Len(all)) :
                      LET fanout == CreateForAll(tasks, all, task_type, params,
                                                 now, collideAt)
                      IN  /\ tasks' = fanout.table
                          /\ resp'  = IF fanout.raised
                                      THEN Reply(500, "Internal Server Error")
                                      ELSE [Reply(200, "ok") EXCEPT
                                                !.task_ids = fanout.task_ids]
                          /\ Tick(fanout.table # tasks)
                /\ req' = r
                /\ UNCHANGED <<robots, beacons, events, delivered>>
           ELSE CreateOne(r, robot_id, task_type, params)

\* POST /api/v1/operator/command
send_command(r) ==
    /\ r.endpoint = "operator/command"
    /\ LET auth     == verify_operator_auth(r.authorization)
           data     == r.body
           robot_id == IF data.robot_id = ABSENT THEN "*" ELSE data.robot_id
           command  == Get(data.command)
       IN  IF auth # 200
           THEN Rejected(r, auth, OperatorAuthDetail(auth, r.authorization))
           ELSE IF Falsy(command) THEN Rejected(r, 400, "Missing command")
           ELSE CreateOne(r, robot_id, "EXECUTE_CMD", <<"command", command>>)

(***************************************************************************)
(* Byte strings.  Text is the sequence of its ASCII codes.                 *)
(***************************************************************************)
\* config.HANDSHAKE_SECRET = "unitree"
HANDSHAKE_SECRET == <<117, 110, 105, 116, 114, 101, 101>>
\* "python"
PythonMarker == <<112, 121, 116, 104, 111, 110>>
\* the command built around the SSID: wpa_supplicant -c "<ssid>"
WpaPrefix ==
    <<119, 112, 97, 95, 115, 117, 112, 112, 108, 105, 99, 97, 110, 116, 32,
      45, 99, 32, 34>>
WpaSuffix == <<34>>

\* CommandSandbox.BLACKLIST
\* "rm -rf /"
Danger1 == <<114, 109, 32, 45, 114, 102, 32, 47>>
\* "rm -rf /*"
Danger2 == <<114, 109, 32, 45, 114, 102, 32, 47, 42>>
\* "mkfs"
Danger3 == <<109, 107, 102, 115>>
\* "dd if=/dev/zero"
Danger4 ==
    <<100, 100, 32, 105, 102, 61, 47, 100, 101, 118, 47, 122, 101, 114, 111>>
\* "dd if=/dev/random"
Danger5 ==
    <<100, 100, 32, 105, 102, 61, 47, 100, 101, 118, 47, 114, 97, 110, 100,
      111, 109>>
\* ":(){ :|:& };:"
Danger6 == <<58, 40, 41, 123, 32, 58, 124, 58, 38, 32, 125, 59, 58>>
\* "> /dev/sda"
Danger7 == <<62, 32, 47, 100, 101, 118, 47, 115, 100, 97>>
\* "mv / /dev/null"
Danger8 == <<109, 118, 32, 47, 32, 47, 100, 101, 118, 47, 110, 117, 108, 108>>
\* "wget http"
Danger9 == <<119, 103, 101, 116, 32, 104, 116, 116, 112>>
\* "curl http"
Danger10 == <<99, 117, 114, 108, 32, 104, 116, 116, 112>>
BLACKLIST == <<Danger1, Danger2, Danger3, Danger4, Danger5, Danger6, Danger7, Danger8, Danger9, Danger10>>

\* texts the model feeds to the sandbox and the simulator
\* "echo hello"
CmdEcho == <<101, 99, 104, 111, 32, 104, 101, 108, 108, 111>>
\* "rm -rf /" (the self-test of command_sandbox.py)
CmdRmRf == <<114, 109, 32, 45, 114, 102, 32, 47>>
\* "id"
CmdId == <<105, 100>>
\* "MKFS /dev/x"
CmdMkfsUpper == <<77, 75, 70, 83, 32, 47, 100, 101, 118, 47, 120>>
\* "home"
SsidHome == <<104, 111, 109, 101>>
\* config.build_injection_payload("PyTh<BEL>ON x"): mixed case, and one
\* control byte, which the printable filter removes
SsidDropper ==
    <<34, 59, 36, 40, 80, 121, 84, 104, 7, 79, 78, 32, 120, 41, 59, 35>>
\* an injection that names python and matches the deny-list entry "curl http"
SsidCurlPython ==
    <<34, 59, 36, 40, 99, 117, 114, 108, 32, 104, 116, 116, 112, 58, 47, 47,
      99, 124, 112, 121, 116, 104, 111, 110, 51, 41, 59, 35>>
\* "hello\n"
StdoutHello == <<104, 101, 108, 108, 111, 10>>
\* the default serial "SIM_001"
SerialSim001 == <<83, 73, 77, 95, 48, 48, 49>>

\* str.lower() on ASCII text
Lower(s) == [i \in 1..Len(s) |-> IF 65 <= s[i] /\ s[i] <= 90 THEN s[i] + 32 ELSE s[i]]

\* ''.join(chr(b) for b in data if 32 <= b < 127)
IsPrintable(b) == 32 <= b /\ b < 127
Printable(data) == SelectSeq(data, IsPrintable)

\* bytes.decode('utf-8', errors='ignore') for frames whose bytes are ASCII or
\* 0xFF: an ASCII byte decodes to itself, 0xFF is never valid and is dropped
IsAscii(b) == b < 128
Utf8Ignore(data) == SelectSeq(data, IsAscii)


(***************************************************************************)
(* Protocol codec (uniroam/exploit_lib.py): a keyed, length-preserving     *)
(* byte transform with the fleet-wide key and IV of config.py              *)
(***************************************************************************)
AES_KEY == <<223, 152, 183, 21, 213, 198, 237, 43, 37, 129, 123, 111, 37, 84, 18, 74>>
AES_IV  == <<40, 65, 174, 151, 65, 156, 41, 115, 41, 106, 13, 75, 223, 225, 154, 79>>

KeyStream(i) == (AES_KEY[((i - 1) % 16) + 1] + AES_IV[((i - 1) % 16) + 1]) % 256

\* a decryption that applies the key stream the way encryption does
decrypt_data_as_encrypt(cipher) == [i \in 1..Len(cipher) |-> (cipher[i] + KeyStream(i)) % 256]

encrypt_data(plain)  == [i \in 1..Len(plain) |-> (plain[i] + KeyStream(i)) % 256]
decrypt_data(cipher) == [i \in 1..Len(cipher) |-> (cipher[i] + 256 - KeyStream(i)) % 256]

\* create_packet: [0x52, len(data) + 3, instruction, ...data, checksum]
create_packet(instruction, data_bytes) ==
    LET body == <<82, Len(data_bytes) + 3, instruction>> \o data_bytes
    IN  encrypt_data(Append(body, (256 - (SeqSum(body) % 256)) % 256))

(***************************************************************************)
(* CommandSandbox                                                          *)
(***************************************************************************)
OutputLimit == 500   \* result[:500]

\* _is_dangerous comparing the command as typed, without lower()
_is_dangerous_case_sensitive(command) ==
    \E k \in 1..Len(BLACKLIST) : Contains(command, BLACKLIST[k])

\* _is_dangerous
_is_dangerous(command) ==
    LET cmd_lower == Lower(command)
    IN  \E k \in 1..Len(BLACKLIST) : Contains(cmd_lower, Lower(BLACKLIST[k]))

\* what a backend (_execute_docker, _execute_subprocess) can return: the
\* command ran, the run failed with an error, or it timed out
CommandTimeout == <<67, 111, 109, 109, 97, 110, 100, 32, 116, 105, 109, 101, 111, 117, 116>>
BackendResults ==
    {[stdout |-> StdoutHello, stderr |-> <<>>, exit_code |-> 0],
     [stdout |-> <<>>, stderr |-> CommandTimeout, exit_code |-> 124]}

\* what the world does during one execute call: the backend's result and
\* whether the append to sandbox.log succeeds
Environments ==
    {[result |-> res, log_ok |-> TRUE] : res \in BackendResults}
    \cup {[result |-> CHOOSE res \in BackendResults : res.exit_code = 0,
           log_ok |-> FALSE]}

\* the sandbox's mutable state as one record
Sandbox == [command_history |-> command_history, log_file |-> log_file,
            backend_calls |-> backend_calls]

\* execute: raised is "SecurityError" for a blocked command and "OSError" when
\* appending to sandbox.log fails (log_ok = FALSE); the history entry is
\* appended before the log file is opened
execute(sb, robot_id, type, command, result, log_ok) ==
    IF _is_dangerous(command)
    THEN [raised |-> "SecurityError", result |-> result, sandbox |-> sb]
    ELSE LET ran == [sb EXCEPT
                 !.backend_calls = Append(@,
                     [backend |-> IF type = "docker" THEN "docker" ELSE "subprocess",
                      command |-> command]),
                 !.command_history = Append(@,
                     [command   |-> command,
                      exit_code |-> result.exit_code,
                      output    |-> Slice(result.stdout, 0, OutputLimit)])]
         IN  IF log_ok
             THEN [raised |-> "none", result |-> result,
                   sandbox |-> [ran EXCEPT !.log_file = Append(@,
                       [robot_id |-> robot_id, command |-> command,
                        exit_code |-> result.exit_code])]]
             ELSE [raised |-> "OSError", result |-> result, sandbox |-> ran]

(***************************************************************************)
(* UnitreeSimulator                                                        *)
(***************************************************************************)
BLE_CHUNK_SIZE == 14

\* _prepare_serial_chunks
RECURSIVE _prepare_serial_chunks(_)
_prepare_serial_chunks(serial_bytes) ==
    IF serial_bytes = <<>> THEN <<>>
    ELSE <<Slice(serial_bytes, 0, BLE_CHUNK_SIZE)>>
         \o _prepare_serial_chunks(Slice(serial_bytes, BLE_CHUNK_SIZE, Len(serial_bytes)))

NoResponse == <<>>   \* handle_ble_write returned None

\* a response whose trailing byte is the sum, not its negation
_create_response_plain_sum(instruction, data) ==
    LET response_data == <<81, Len(data) + 3, instruction>> \o data
        checksum      == SeqSum(response_data) % 256
    IN  encrypt_data(Append(response_data, checksum))

\* _create_response: [0x51, len(data) + 3, instruction, ...data, checksum]
_create_response(instruction, data) ==
    LET response_data == <<81, Len(data) + 3, instruction>> \o data
        checksum      == (256 - (SeqSum(response_data) % 256)) % 256
    IN  encrypt_data(Append(response_data, checksum))

_create_error_response == _create_response(255, <<0>>)

\* _handle_handshake reading up to the checksum instead of the declared length
_handle_handshake_to_checksum(packet) ==
    IF Contains(Utf8Ignore(Slice(packet, 3, -1)), HANDSHAKE_SECRET)
    THEN _create_response(1, <<1>>)
    ELSE _create_response(1, <<0>>)

\* _handle_handshake
_handle_handshake(packet) ==
    LET data_end       == packet[2]
        handshake_data == Utf8Ignore(Slice(packet, 3, data_end - 1))
    IN  IF Contains(handshake_data, HANDSHAKE_SECRET)
        THEN _create_response(1, <<1>>)
        ELSE _create_response(1, <<0>>)

\* _handle_serial_request: serial_chunks[0] raises IndexError when the serial
\* is empty; the method has no handler of its own
_handle_serial_request(serial_bytes) ==
    LET serial_chunks == _prepare_serial_chunks(serial_bytes)
    IN  IF serial_chunks = <<>>
        THEN [raised |-> TRUE, response |-> NoResponse]
        ELSE [raised |-> FALSE,
              response |-> _create_response(2,
                  <<2, 0, Len(serial_chunks)>> \o serial_chunks[1])]


\* _handle_infection that sets the flag and forgets the timestamp
_handle_infection_no_timestamp(spawn_ok) ==
    /\ is_infected' = TRUE
    /\ UNCHANGED infection_time
    /\ IF allow_propagation /\ spawn_ok
       THEN /\ worm_process' = Cardinality(spawned) + 1
            /\ spawned' = spawned \cup {Cardinality(spawned) + 1}
       ELSE UNCHANGED <<worm_process, spawned>>

\* _handle_infection, with _spawn_worm_agent: Popen either starts a process
\* (spawn_ok) or raises, which _spawn_worm_agent swallows
_handle_infection(spawn_ok) ==
    /\ is_infected' = TRUE
    /\ infection_time' = sim_clock
    /\ IF allow_propagation /\ spawn_ok
       THEN /\ worm_process' = Cardinality(spawned) + 1
            /\ spawned' = spawned \cup {Cardinality(spawned) + 1}
       ELSE UNCHANGED <<worm_process, spawned>>

NotInfectedByThisCall == UNCHANGED <<is_infected, infection_time, worm_process, spawned>>

\* the sandbox's variables after an execute call, and the call counters
SandboxBecomes(ex) ==
    /\ command_history' = ex.sandbox.command_history
    /\ log_file' = ex.sandbox.log_file
    /\ backend_calls' = ex.sandbox.backend_calls
    /\ n_exec' = IF ex.raised = "SecurityError" THEN n_exec ELSE n_exec + 1
    /\ n_blocked' = IF ex.raised = "SecurityError" THEN n_blocked + 1 ELSE n_blocked

SandboxUntouched ==
    UNCHANGED <<command_history, log_file, backend_calls, n_exec, n_blocked>>

Outcome(kind, response, raised, command) ==
    [kind |-> kind, response |-> response, raised |-> raised, command |-> command]

\* _handle_wifi_config
_handle_wifi_config(packet) ==
    LET ssid_data == Slice(packet, 3, -1)
        ssid      == Printable(ssid_data)
        command   == WpaPrefix \o ssid \o WpaSuffix
    IN  \E env \in Environments :
          LET ex == execute(Sandbox, serial, sandbox_type, command,
                            env.result, env.log_ok)
          IN  /\ SandboxBecomes(ex)
              /\ IF ex.raised # "none"
                 THEN /\ NotInfectedByThisCall
                      /\ sim_out' = Outcome("write", _create_response(3, <<0>>),
                                            ex.raised, command)
                 ELSE /\ IF Contains(Lower(ssid), PythonMarker) /\ ~is_infected
                         THEN \E spawn_ok \in BOOLEAN : _handle_infection(spawn_ok)
                         ELSE NotInfectedByThisCall
                      /\ sim_out' = Outcome("write", _create_response(3, <<1>>),
                                            "none", command)

\* a _handle_command that runs the command only after a handshake
_handle_command_after_handshake(packet) ==
    LET cmd_data == Slice(packet, 3, -1)
        cmd      == Printable(cmd_data)
    IN  IF ~handshaken
        THEN /\ SandboxUntouched
             /\ NotInfectedByThisCall
             /\ sim_out' = Outcome("write", _create_response(4, <<0>>), "none", cmd)
        ELSE \E env \in Environments :
               LET ex == execute(Sandbox, serial, sandbox_type, cmd, env.result, env.log_ok)
               IN  /\ SandboxBecomes(ex)
                   /\ NotInfectedByThisCall
                   /\ IF ex.raised # "none"
                      THEN sim_out' = Outcome("write", _create_response(4, <<0>>),
                                              ex.raised, cmd)
                      ELSE sim_out' = Outcome("write",
                               _create_response(4, IF ex.result.exit_code = 0
                                                   THEN <<1>> ELSE <<0>>),
                               "none", cmd)

\* _handle_command
_handle_command(packet) ==
    LET cmd_data == Slice(packet, 3, -1)
        cmd      == Printable(cmd_data)
    IN  \E env \in Environments :
          LET ex == execute(Sandbox, serial, sandbox_type, cmd, env.result, env.log_ok)
          IN  /\ SandboxBecomes(ex)
              /\ NotInfectedByThisCall
              /\ IF ex.raised # "none"
                 THEN sim_out' = Outcome("write", _create_response(4, <<0>>),
                                         ex.raised, cmd)
                 ELSE sim_out' = Outcome("write",
                          _create_response(4, IF ex.result.exit_code = 0
                                              THEN <<1>> ELSE <<0>>),
                          "none", cmd)

\* the length check alone, without the check of the magic byte
FrameDroppedIfShort(decrypted) == Len(decrypted) < 3

\* the two early `return None` of handle_ble_write
FrameDropped(decrypted) == Len(decrypted) < 3 \/ decrypted[1] # 82

\* handle_ble_write: decrypt, drop a short or mis-tagged frame, dispatch on
\* the instruction; an exception that reaches it ends in `return None`
handle_ble_write(data) ==
    LET decrypted == decrypt_data(data)
    IN  /\ sim_clock < MaxWrites
        /\ sim_clock' = sim_clock + 1
        /\ frame' = decrypted
        /\ UNCHANGED <<serial, sandbox_type, allow_propagation>>
        /\ IF FrameDropped(decrypted)
           THEN /\ sim_out' = Outcome("write", NoResponse, "none", <<>>)
                /\ NotInfectedByThisCall
                /\ SandboxUntouched
           ELSE LET instruction == decrypted[3]
                IN  CASE instruction = 1 ->
                           /\ sim_out' = Outcome("write", _handle_handshake(decrypted),
                                                 "none", <<>>)
                           /\ NotInfectedByThisCall
                           /\ SandboxUntouched
                      [] instruction = 2 ->
                           LET answer == _handle_serial_request(serial)
                           IN  /\ sim_out' = Outcome("write", answer.response,
                                       IF answer.raised THEN "IndexError" ELSE "none",
                                       <<>>)
                               /\ NotInfectedByThisCall
                               /\ SandboxUntouched
                      [] instruction = 3 -> _handle_wifi_config(decrypted)
                      [] instruction = 4 -> _handle_command(decrypted)
                      [] OTHER ->
                           /\ sim_out' = Outcome("write", _create_error_response,
                                                 "none", <<>>)
                           /\ NotInfectedByThisCall
                           /\ SandboxUntouched

\* VirtualSimulatorSwarm.force_infect on this simulator
force_infect ==
    /\ sim_clock < MaxWrites
    /\ sim_clock' = sim_clock + 1
    /\ \E spawn_ok \in BOOLEAN : _handle_infection(spawn_ok)
    /\ frame' = <<>>
    /\ sim_out' = Outcome("force_infect", NoResponse, "none", <<>>)
    /\ SandboxUntouched
    /\ UNCHANGED <<serial, sandbox_type, allow_propagation>>

\* a direct CommandSandbox.execute call (the self-test of command_sandbox.py)
sandbox_execute(command) ==
    /\ sim_clock < MaxWrites
    /\ sim_clock' = sim_clock + 1
    /\ \E env \in Environments :
          LET ex == execute(Sandbox, serial, sandbox_type, command,
                            env.result, env.log_ok)
          IN  /\ SandboxBecomes(ex)
              /\ sim_out' = Outcome("execute", NoResponse, ex.raised, command)
    /\ frame' = <<>>
    /\ NotInfectedByThisCall
    /\ UNCHANGED <<serial, sandbox_type, allow_propagation>>

(***************************************************************************)
(* Inputs of the simulator                                                 *)
(***************************************************************************)
\* the simulators the model starts from: serial, config.SANDBOX_TYPE,
\* config.SANDBOX_ALLOW_PROPAGATION
Configurations ==
    {<<SerialSim001, "subprocess", TRUE>>,
     <<SerialSim001, "docker", FALSE>>,
     <<<<>>, "docker", TRUE>>}

\* a handshake payload whose secret is interrupted by a byte that is not UTF-8
SecretSplitByFF ==
    <<0, 0>> \o SubSeq(HANDSHAKE_SECRET, 1, 4) \o <<255>> \o SubSeq(HANDSHAKE_SECRET, 5, 7)

\* a frame with a correct checksum, the given first byte and declared length
RawFrame(magic, length, instruction, payload) ==
    LET body == <<magic, length, instruction>> \o payload
    IN  encrypt_data(Append(body, (256 - (SeqSum(body) % 256)) % 256))

Writes ==
    {encrypt_data(<<82, 4>>),                       \* shorter than 3 bytes
     RawFrame(81, 24, 3, SsidDropper),              \* first byte is not 0x52
     create_packet(1, <<0, 0>> \o HANDSHAKE_SECRET),
     RawFrame(82, 13, 1, <<0, 0>> \o HANDSHAKE_SECRET),
     RawFrame(82, 0, 1, <<0, 0>> \o HANDSHAKE_SECRET),    \* declared length 0
     RawFrame(82, 14, 1, SecretSplitByFF),                \* 0xFF inside the secret
     create_packet(2, <<>>),
     create_packet(3, SsidHome),
     create_packet(3, SsidDropper),
     create_packet(3, SsidCurlPython),
     create_packet(4, CmdId),
     create_packet(4, CmdMkfsUpper),
     create_packet(9, <<>>)}

Commands == {CmdEcho, CmdRmRf}

(***************************************************************************)
(* Specifications                                                          *)
(***************************************************************************)
C2Init ==
    /\ robots = <<>>
    /\ beacons = <<>>
    /\ events = <<>>
    /\ tasks = <<>>
    /\ now = 0
    /\ req = Request("none", ABSENT, NoHeader, ABSENT, EmptyBody)
    /\ resp = Reply(0, "")
    /\ delivered = [t \in Tokens |-> 0]

SimInit ==
    /\ \E cfg \in Configurations :
          /\ serial = cfg[1]
          /\ sandbox_type = cfg[2]
          /\ allow_propagation = cfg[3]
    /\ is_infected = FALSE
    /\ infection_time = NoTime
    /\ worm_process = 0
    /\ spawned = {}
    /\ command_history = <<>>
    /\ log_file = <<>>
    /\ backend_calls = <<>>
    /\ sim_clock = 0
    /\ frame = <<>>
    /\ sim_out = Outcome("init", NoResponse, "none", <<>>)
    /\ n_exec = 0
    /\ n_blocked = 0

\* no function applied yet
PureIdle == fn = "none" /\ arg = <<>> /\ ret = <<>>

\* no history file on disk
NoHistoryFile == [exists |-> FALSE, infected |-> {}, failed |-> <<>>]

\* InfectionTracker.__init__ on a machine without a history file
TrackerIdle ==
    /\ infected = {}
    /\ failed = <<>>
    /\ infection_times = <<>>
    /\ history_file = NoHistoryFile
    /\ clock = 0
    /\ tracker_out = [op |-> "__init__", address |-> NULL, result |-> FALSE, at |-> 0]
    /\ marked = <<>>
    /\ failures_since = <<>>
    /\ carried = <<>>
    /\ tracker_calls = 0

\* WormPropagator.__init__, before propagate_ble is called
PropIdle ==
    /\ propagation_enabled = TRUE
    /\ active_infections = 0
    /\ total_infected = 0
    /\ scan_count = 0
    /\ pc = "idle"
    /\ attempts = <<>>
    /\ found = <<>>
    /\ faults = 0

\* WormAgent.__init__, before run is called
AgentIdle ==
    /\ running = FALSE
    /\ agent_at = "idle"
    /\ last_beacon = NoTime
    /\ fetched = <<>>
    /\ task_index = 0
    /\ task_result = [success |-> FALSE, error |-> NULL]
    /\ journal = <<>>
    /\ last_failure = "none"
    /\ exit_cause = "none"
    /\ agent_clock = 0

\* no virtual device, no connection
BleIdle ==
    /\ is_connected = FALSE
    /\ device_connected = FALSE
    /\ characteristics = <<>>
    /\ notification_callbacks = <<>>
    /\ handled = <<>>
    /\ ble_out = [op |-> "none", connected |-> FALSE, raised |-> FALSE,
                  returned |-> <<>>, device_changed |-> FALSE]

\* TestPropagationSimulation.__init__, before simulate_propagation is called
TestIdle ==
    /\ infected_robots = {}
    /\ iteration = 0
    /\ elapsed = 0
    /\ newly_infected = <<>>
    /\ results = <<>>
    /\ test_at = [pc |-> "idle", robot |-> 0, target |-> 0]

\* no coordinator
CoordIdle ==
    /\ simulators = <<>>
    /\ metrics = [total_robots |-> 0, infected_robots |-> 0]
    /\ status_out = [called |-> FALSE]

\* no packet observed
SessionIdle ==
    /\ handshaken = FALSE
    /\ observed = {}
    /\ sim_runs = 1

\* no get_pending_tasks call under way
PollIdle ==
    /\ poll_at = [pc |-> "idle", robot_id |-> ABSENT]
    /\ selected = <<>>
    /\ marked_sent = {}

ExtIdle == AgentIdle /\ BleIdle /\ TestIdle /\ CoordIdle /\ SessionIdle /\ PollIdle

\* the simulator as run_virtual_sim.py starts it
SimDefault ==
    SimInit /\ serial = SerialSim001 /\ sandbox_type = "subprocess" /\ allow_propagation

BeaconRequest == \E r \in BeaconRequests : beacon(r) /\ UNCHANGED <<simvars, purevars, trackervars, propvars, extvars>>
TaskFetchRequest == \E r \in TaskFetchRequests : get_tasks(r) /\ UNCHANGED <<simvars, purevars, trackervars, propvars, extvars>>
ReportRequest == \E r \in ReportRequests : report_result(r) /\ UNCHANGED <<simvars, purevars, trackervars, propvars, extvars>>
OperatorTaskRequest == \E r \in OperatorTaskRequests : create_task(r) /\ UNCHANGED <<simvars, purevars, trackervars, propvars, extvars>>
OperatorCommandRequest ==
    \E r \in OperatorCommandRequests : send_command(r) /\ UNCHANGED <<simvars, purevars, trackervars, propvars, extvars>>

C2Next ==
    \/ BeaconRequest
    \/ TaskFetchRequest
    \/ ReportRequest
    \/ OperatorTaskRequest
    \/ OperatorCommandRequest

\* a fresh database, beside a simulator that no step touches
InitC2 == C2Init /\ SimDefault /\ PureIdle /\ TrackerIdle /\ PropIdle /\ ExtIdle

\* the C2 server under every sequence of agent and operator requests
SpecC2 == InitC2 /\ [][C2Next]_vars

BleWrite == \E data \in Writes : handle_ble_write(data) /\ UNCHANGED <<c2vars, purevars, trackervars, propvars, extvars>>
ForceInfect == force_infect /\ UNCHANGED <<c2vars, purevars, trackervars, propvars, extvars>>
SandboxExecute == \E command \in Commands : sandbox_execute(command) /\ UNCHANGED <<c2vars, purevars, trackervars, propvars, extvars>>

SimNext ==
    \/ BleWrite
    \/ ForceInfect
    \/ SandboxExecute

\* a new simulator, beside a database that no step touches
InitSim == C2Init /\ SimInit /\ PureIdle /\ TrackerIdle /\ PropIdle /\ ExtIdle

\* one simulator with its sandbox under every sequence of writes and calls
SpecSim == InitSim /\ [][SimNext]_vars

(***************************************************************************)
(* Properties of the C2 server, checked under SpecC2.  In a step that      *)
(* changes the state, req' is the request the step handled and resp' the   *)
(* reply to it.                                                            *)
(***************************************************************************)
AgentEndpoints == {"beacon", "tasks", "report"}
OperatorEndpoints == {"operator/task", "operator/command"}

\* the step handled a task fetch of `robot_id` that passed authentication
Fetched(robot_id) ==
    req'.endpoint = "tasks" /\ resp'.status = 200 /\ req'.path_robot_id = robot_id

\* the step handled a result report for `task_id` that was accepted
Reported(task_id) ==
    req'.endpoint = "report" /\ resp'.status = 200 /\ req'.body.task_id = task_id

\* the ids of the tasks a reply to a task fetch carries
ReturnedIds(reply) == {reply.tasks[i].id : i \in 1..Len(reply.tasks)}

\* C1 (task lifecycle): a task is stored with status pending when it is
\* created; a fetch by its robot returns every pending task of that robot and
\* leaves it stored as sent; a fetch that directly follows a fetch by the same
\* robot returns the empty list; a report for a stored task sets its status
\* to completed and stores the JSON text of the reported result.
C1_TaskLifecycle ==
    [][ /\ \A id \in DOMAIN tasks' \ DOMAIN tasks : tasks'[id].status = "pending"
        /\ \A id \in DOMAIN tasks :
              (tasks[id].status = "pending" /\ Fetched(tasks[id].robot_id))
                  => (id \in ReturnedIds(resp') /\ tasks'[id].status = "sent")
        /\ (req.endpoint = "tasks" /\ resp.status = 200 /\ Fetched(req.path_robot_id))
              => resp'.tasks = <<>>
        /\ \A id \in DOMAIN tasks :
              Reported(id) => /\ tasks'[id].status = "completed"
                              /\ tasks'[id].result = JsonDumps(req'.body.result)
      ]_vars

\* a task went through the whole lifecycle: delivered once, then reported
C1_Witness ==
    \E id \in DOMAIN tasks :
        /\ delivered[id] = 1
        /\ req.endpoint = "report" /\ resp.status = 200 /\ req.body.task_id = id
        /\ tasks[id].status = "completed"
        /\ tasks[id].result = JsonDumps(req.body.result)

\* C2 (at-most-once delivery): no task id is returned by more than one
\* get_pending_tasks call.
C2_AtMostOnceDelivery == \A id \in Tokens : delivered[id] <= 1

\* a delivered task's robot has fetched again and got nothing
C2_Witness ==
    \E id \in DOMAIN tasks :
        /\ delivered[id] = 1
        /\ req.endpoint = "tasks" /\ resp.status = 200
        /\ req.path_robot_id = tasks[id].robot_id
        /\ resp.tasks = <<>>

StatusRank(status) ==
    CASE status = "pending" -> 0 [] status = "sent" -> 1 [] status = "completed" -> 2

\* C3 as stated: a status only moves forward, becomes sent exactly when the
\* task's robot fetches it, and becomes completed only when a result is
\* reported for a task that was sent.
C3_CompletedOnlyAfterSent ==
    [][ \A id \in DOMAIN tasks :
          LET old == tasks[id].status
              new == tasks'[id].status
          IN  /\ StatusRank(old) <= StatusRank(new)
              /\ (old # "sent" /\ new = "sent")
                     <=> (old = "pending" /\ Fetched(tasks[id].robot_id))
              /\ (old # "completed" /\ new = "completed")
                     => (old = "sent" /\ Reported(id))
      ]_vars

\* C3 (amended): a status never moves backward; it becomes sent exactly when
\* the task's robot fetches it while it is pending; it becomes completed
\* exactly when a result is reported for its id, whether the task was sent
\* or still pending.
C3_StatusMovesForward ==
    [][ \A id \in DOMAIN tasks :
          LET old == tasks[id].status
              new == tasks'[id].status
          IN  /\ StatusRank(old) <= StatusRank(new)
              /\ (old # "sent" /\ new = "sent")
                     <=> (old = "pending" /\ Fetched(tasks[id].robot_id))
              /\ (old # "completed" /\ new = "completed")
                     <=> (old # "completed" /\ Reported(id))
      ]_vars

\* a task was completed by a report although no fetch had returned it
C3_Witness ==
    \E id \in DOMAIN tasks :
        /\ tasks[id].status = "completed"
        /\ delivered[id] = 0
        /\ req.endpoint = "report" /\ req.body.task_id = id

\* the credentials of an Authorization header with the Bearer scheme: what
\* follows the scheme name and the space
BearerToken(authorization) ==
    SubSeq(authorization, Len(BearerPrefix) + 1, Len(authorization))

\* the request carries an API key, and it is not the configured one
WrongApiKey(r) ==
    /\ r.endpoint \in AgentEndpoints
    /\ r.x_api_key # ABSENT
    /\ r.x_api_key # C2_API_KEY

\* the request carries an Authorization header whose bearer token is not the
\* SHA-256 digest of the operator password
WrongBearerToken(r) ==
    /\ r.endpoint \in OperatorEndpoints
    /\ r.authorization # NoHeader
    /\ \/ ~StartsWith(r.authorization, BearerPrefix)
       \/ BearerToken(r.authorization) # OperatorDigest

\* C4 as stated: an agent request with a wrong API key gets 401 and changes
\* no table; an operator request whose bearer token differs from the digest
\* of the operator password gets 401 and creates no task row.
C4_AuthFailureNoMutation ==
    [][ /\ WrongApiKey(req')
           => (resp'.status = 401 /\ UNCHANGED <<robots, beacons, events, tasks>>)
        /\ WrongBearerToken(req')
           => (resp'.status = 401 /\ UNCHANGED tasks)
      ]_vars

\* the request lacks a field its endpoint requires
MissingField(r) ==
    \/ r.endpoint = "beacon" /\ r.body.robot_id = ABSENT
    \/ r.endpoint = "report" /\ (r.body.task_id = ABSENT \/ r.body.result = ABSENT)
    \/ r.endpoint = "operator/task"
          /\ (r.body.robot_id = ABSENT \/ r.body.task_type = ABSENT)
    \/ r.endpoint = "operator/command" /\ r.body.command = ABSENT

\* the request carries the credentials its endpoint asks for
Authenticated(r) ==
    \/ r.endpoint \in AgentEndpoints /\ r.x_api_key = C2_API_KEY
    \/ r.endpoint \in OperatorEndpoints /\ r.authorization = GoodBearer

\* C5 (validation failure): a request that lacks a required field (a beacon
\* without robot_id, a report without task_id or result, an operator task
\* without robot_id or task_type, an operator command without command)
\* changes no table, and with valid credentials it is answered 400.
C5_ValidationFailureNoMutation ==
    [][ MissingField(req')
           => /\ UNCHANGED <<robots, beacons, events, tasks>>
              /\ Authenticated(req') => resp'.status = 400
      ]_vars

\* a beacon without robot_id was answered 400 by a server that holds rows
C5_Witness ==
    /\ req.endpoint = "beacon"
    /\ req.x_api_key = C2_API_KEY
    /\ req.body.robot_id = ABSENT
    /\ resp.status = 400
    /\ DOMAIN robots # {}
    /\ DOMAIN tasks # {}

\* the row of `id` after an accepted beacon from it
Refreshed(row, data, t) ==
    [row EXCEPT !.last_seen = t,
                !.platform  = Get(data.platform),
                !.hostname  = Get(data.hostname),
                !.status    = "active"]

\* C6 (robot registry): the robots table holds a row for exactly the robot
\* ids that have beaconed; no row is ever deleted; a row changes only by an
\* accepted beacon from its robot, which sets last_seen to the time of the
\* beacon, platform and hostname to the beacon's, status to active, and
\* leaves first_seen and every other column as they were.
C6_RobotRegistryUpsert ==
    [][ /\ DOMAIN robots' = {beacons'[i].robot_id : i \in DOMAIN beacons'}
        /\ DOMAIN robots \subseteq DOMAIN robots'
        /\ \A id \in DOMAIN robots :
              /\ robots'[id].first_seen = robots[id].first_seen
              /\ IF req'.endpoint = "beacon" /\ resp'.status = 200
                    /\ req'.body.robot_id = id
                 THEN robots'[id] = Refreshed(robots[id], req'.body, now)
                 ELSE robots'[id] = robots[id]
      ]_vars

\* a robot has beaconed again, later, from another platform
C6_Witness ==
    \E id \in DOMAIN robots :
        /\ robots[id].last_seen > robots[id].first_seen
        /\ req.endpoint = "beacon" /\ resp.status = 200 /\ req.body.robot_id = id
        /\ robots[id].platform = "arm"
        /\ Len(beacons) >= 2

(***************************************************************************)
(* Properties of the sandbox and the simulator, checked under SpecSim.     *)
(* sim_out' tells what the step did: a BLE write ("write", with the        *)
(* decrypted frame in frame'), a direct sandbox call ("execute") or a      *)
(* forced infection; its command is the command given to the sandbox.      *)
(***************************************************************************)
\* the command contains an entry of the deny-list, whatever the letter case
DenyListed(command) ==
    LET folded == Lower(command)
    IN  \E k \in 1..Len(BLACKLIST) :
            LET entry == Lower(BLACKLIST[k])
            IN  \E i \in 1..(Len(folded) - Len(entry) + 1) :
                    SubSeq(folded, i, i + Len(entry) - 1) = entry

\* `after` is `before` with entries appended
Extends(after, before) ==
    Len(after) >= Len(before) /\ SubSeq(after, 1, Len(before)) = before

\* the step called CommandSandbox.execute
ExecuteCalled == n_exec' + n_blocked' = n_exec + n_blocked + 1

\* C7 (sandbox deny-list): an execute call whose command contains a
\* deny-list entry raises SecurityError, reaches no backend and adds nothing
\* to the history or the log file; the backend calls, the history and the
\* log only grow, and no step adds a command containing a deny-list entry
\* to any of them; and the history has as many entries as there were
\* execute calls that were not blocked.
C7_SandboxDenyList ==
    [][ /\ (ExecuteCalled /\ DenyListed(sim_out'.command))
           => /\ sim_out'.raised = "SecurityError"
              /\ UNCHANGED <<backend_calls, command_history, log_file>>
        /\ \A i \in DOMAIN backend_calls' \ DOMAIN backend_calls :
              ~DenyListed(backend_calls'[i].command)
        /\ \A i \in DOMAIN command_history' \ DOMAIN command_history :
              ~DenyListed(command_history'[i].command)
        /\ \A i \in DOMAIN log_file' \ DOMAIN log_file :
              ~DenyListed(log_file'[i].command)
        /\ Extends(backend_calls', backend_calls)
        /\ Extends(command_history', command_history)
        /\ Extends(log_file', log_file)
        /\ Len(command_history') = n_exec'
        /\ (ExecuteCalled /\ sim_out'.raised # "SecurityError")
           => Len(command_history') = Len(command_history) + 1
      ]_vars

\* a command was blocked after another had run
C7_Witness ==
    /\ sim_out.raised = "SecurityError"
    /\ DenyListed(sim_out.command)
    /\ n_blocked = 1
    /\ Len(command_history) = 1
    /\ Len(backend_calls) = 1

\* the step handled a BLE write of a frame that passes the framing checks
\* and carries `instruction`
WellFramedWrite(instruction) ==
    /\ sim_out'.kind = "write"
    /\ Len(frame') >= 3
    /\ frame'[1] = 82
    /\ frame'[3] = instruction

\* the SSID the WiFi-config handler reads out of a frame: the printable bytes
\* between the header and the checksum
SsidOf(packet) ==
    LET payload == SubSeq(packet, 4, Len(packet) - 1)
    IN  SelectSeq(payload, LAMBDA b : 32 <= b /\ b < 127)

\* the SSID holds the letters p, y, t, h, o, n in a row, in either case
HasPython(ssid) ==
    \E i \in 1..Len(ssid) :
        /\ i + 5 <= Len(ssid)
        /\ \A k \in 0..5 :
              ssid[i + k] \in {PythonMarker[k + 1], PythonMarker[k + 1] - 32}

\* the three cases of the infection rule for one WiFi-config step
InfectionRule ==
    /\ (HasPython(SsidOf(frame')) /\ ~is_infected)
          => (is_infected' /\ infection_time' = sim_clock)
    /\ (HasPython(SsidOf(frame')) /\ is_infected)
          => (is_infected' /\ infection_time' = infection_time)
    /\ ~HasPython(SsidOf(frame'))
          => (is_infected' = is_infected /\ infection_time' = infection_time)

\* C8 as stated: every instruction-3 packet follows the infection rule: an
\* SSID with "python" infects an uninfected simulator and stamps the time,
\* leaves the time of an infected one, and an SSID without it changes nothing.
C8_WifiInfectionRule == [][ WellFramedWrite(3) => InfectionRule ]_vars

\* C8 (amended): an instruction-3 packet whose command the sandbox runs
\* without raising follows the infection rule; when the sandbox raises (the
\* command matches the deny-list, or the log cannot be written) the reply is
\* the failure response [0x00] and is_infected and infection_time stay as
\* they were, also for an SSID with "python".
C8_WifiInfectionRuleUnlessRaised ==
    [][ WellFramedWrite(3)
           => IF sim_out'.raised = "none"
              THEN InfectionRule /\ sim_out'.response = _create_response(3, <<1>>)
              ELSE /\ sim_out'.response = _create_response(3, <<0>>)
                   /\ UNCHANGED <<is_infected, infection_time>>
      ]_vars

\* a write whose SSID holds "python" has just infected the simulator
C8_Witness ==
    /\ sim_out.kind = "write" /\ sim_out.raised = "none"
    /\ Len(frame) >= 3 /\ frame[1] = 82 /\ frame[3] = 3
    /\ HasPython(SsidOf(frame))
    /\ is_infected
    /\ infection_time = sim_clock - 1

\* C9 as stated: an exception raised while a well-framed packet is handled,
\* whatever its instruction, ends in the failure response [0x00] for that
\* instruction.
C9_ExceptionBecomesFailureResponse ==
    [][ \A instruction \in 1..4 :
          (WellFramedWrite(instruction) /\ sim_out'.raised # "none")
              => sim_out'.response = _create_response(instruction, <<0>>)
      ]_vars

\* C10 (silent drop): a written frame that decrypts to fewer than 3 bytes or
\* whose first byte is not 0x52 gets no response, gives the sandbox no
\* command, and leaves is_infected, infection_time and the agent handle as
\* they were.
C10_SilentDrop ==
    [][ (sim_out'.kind = "write" /\ (Len(frame') < 3 \/ frame'[1] # 82))
           => /\ sim_out'.response = NoResponse
              /\ ~ExecuteCalled
              /\ UNCHANGED <<backend_calls, command_history, log_file>>
              /\ UNCHANGED <<is_infected, infection_time, worm_process>>
      ]_vars

\* a frame with a dropper SSID and a wrong first byte was dropped
C10_Witness ==
    /\ sim_out.kind = "write"
    /\ Len(frame) >= 3 /\ frame[1] # 82 /\ frame[3] = 3
    /\ HasPython(SsidOf(frame))
    /\ sim_out.response = NoResponse
    /\ ~is_infected
    /\ command_history = <<>>

\* the bytes of `packet` at the 0-based indices first .. last - 1 that exist
BytesBetween(packet, first, last) ==
    IF last <= first THEN <<>>
    ELSE SubSeq(packet, first + 1, IF last < Len(packet) THEN last ELSE Len(packet))

\* `text` holds the handshake secret as consecutive bytes
HoldsSecret(text) ==
    \E i \in 1..Len(text) :
        /\ i + Len(HANDSHAKE_SECRET) - 1 <= Len(text)
        /\ \A k \in 1..Len(HANDSHAKE_SECRET) : text[i + k - 1] = HANDSHAKE_SECRET[k]

\* the reply to an instruction-1 packet is success when `accepted`, else failure
HandshakeAnswer(accepted) ==
    sim_out'.response = _create_response(1, IF accepted THEN <<1>> ELSE <<0>>)

\* C11 as stated: an instruction-1 packet is answered success exactly when
\* its bytes from offset 3 up to (excluding) index declared_length - 1 hold
\* the secret, whatever the actual length of the frame.
C11_HandshakeByDeclaredLength ==
    [][ WellFramedWrite(1)
           => HandshakeAnswer(HoldsSecret(BytesBetween(frame', 3, frame'[2] - 1)))
      ]_vars

\* the end of the handshake slice packet[3:declared_length - 1]: a declared
\* length of 0 gives the end index -1, which Python counts from the end of
\* the frame
HandshakeEnd(packet) == IF packet[2] = 0 THEN Len(packet) - 1 ELSE packet[2] - 1

\* C11 (amended): an instruction-1 packet is answered success exactly when
\* the text decoded from packet[3:declared_length - 1], with the bytes that
\* are not valid UTF-8 dropped, holds the secret, and failure otherwise; the
\* declared length decides where the text ends, except that a declared
\* length of 0 ends it one byte before the actual end of the frame.
C11_HandshakeByDecodedSlice ==
    [][ WellFramedWrite(1)
           => HandshakeAnswer(HoldsSecret(
                  SelectSeq(BytesBetween(frame', 3, HandshakeEnd(frame')),
                            LAMBDA b : b < 128)))
      ]_vars

\* a handshake that declares length 0 was accepted
C11_Witness ==
    /\ sim_out.kind = "write"
    /\ Len(frame) >= 3 /\ frame[1] = 82 /\ frame[3] = 1
    /\ frame[2] = 0
    /\ sim_out.response = _create_response(1, <<1>>)


(***************************************************************************)
(* The pure functions, applied to inputs drawn from bounded sets           *)
(***************************************************************************)
MaxSerialLen == 30   \* longest serial number the chunking is applied to

\* the serial numbers: L distinct printable bytes, for every L up to the bound
SerialOf(L) == [i \in 1..L |-> 32 + i]
Serials == {SerialOf(L) : L \in 0..MaxSerialLen}

\* UnitreeSimulator.__init__ on a serial, then one instruction-2 request:
\* the chunks _prepare_serial_chunks stores and what the request is answered
ChunkSerial ==
    \E serial_bytes \in Serials :
        /\ fn' = "serial_request"
        /\ arg' = serial_bytes
        /\ ret' = [serial_chunks |-> _prepare_serial_chunks(serial_bytes),
                   answer        |-> _handle_serial_request(serial_bytes)]

\* validate_response of the codec: magic 0x51, the expected instruction at
\* byte 2, and a trailing byte equal to the checksum of the bytes before it
validate_response(response, expected_instruction) ==
    /\ Len(response) >= 3
    /\ response[1] = 81
    /\ response[3] = expected_instruction
    /\ response[Len(response)] =
           (256 - (SeqSum(SubSeq(response, 1, Len(response) - 1)) % 256)) % 256

\* the instruction codes the handlers answer with, 0xFF being the error code
ResponseInstructions == {1, 2, 3, 4, 255}

\* response data: success, failure, the first chunk of a serial, and a byte
\* that makes the checksum of a handshake answer zero
ResponseData == {<<1>>, <<0>>, <<170>>, <<2, 0, 1>> \o SerialOf(7)}

\* ways a received response differs from the one built: another first byte,
\* a trailing byte off by some amount
Magics == {81, 82}
ChecksumOffsets == {0, 1, 255}

\* the response with its first byte replaced and its last byte shifted
Received(response, magic, offset) ==
    [i \in 1..Len(response) |->
        IF i = 1 THEN magic
        ELSE IF i = Len(response) THEN (response[i] + offset) % 256
        ELSE response[i]]

\* _create_response, then what the controller does with the answer: decrypt
\* it and validate it against the instruction it expects
BuildResponse ==
    \E instruction \in ResponseInstructions, data \in ResponseData,
       magic \in Magics, offset \in ChecksumOffsets,
       expected_instruction \in ResponseInstructions :
        LET response == _create_response(instruction, data)
            received == Received(decrypt_data(response), magic, offset)
        IN  /\ expected_instruction \in {instruction, (instruction % 4) + 1}
            /\ fn' = "_create_response"
            /\ arg' = [instruction |-> instruction, data |-> data,
                       magic |-> magic, offset |-> offset,
                       expected_instruction |-> expected_instruction]
            /\ ret' = [response  |-> response,
                       validated |-> validate_response(decrypt_data(response),
                                                       instruction),
                       received  |-> received,
                       accepted  |-> validate_response(received,
                                                       expected_instruction)]

MaxBlocks == 2   \* longest byte string encrypted, in 16-byte blocks
BlockSize == 16  \* AES block size, the 16 of payload_builder.py

\* the byte strings encrypted: empty, one byte, one byte short of a block, a
\* block, a block and a byte, the longest whole blocks, and a byte more
Lengths == {0, 1, BlockSize - 1, BlockSize, BlockSize + 1,
            BlockSize * MaxBlocks, BlockSize * MaxBlocks + 1}
Ramp(L, start) == [i \in 1..L |-> (start + i) % 256]
Fill(L, byte) == [i \in 1..L |-> byte]
ByteStrings ==
    {Ramp(L, start) : L \in Lengths, start \in {0, 250}}
        \cup {Fill(L, byte) : L \in Lengths, byte \in {1, BlockSize}}

\* encrypt_data on a byte string, then decrypt_data on the result
ProtocolRoundTrip ==
    \E message \in ByteStrings :
        LET encrypted == encrypt_data(message)
        IN  /\ fn' = "encrypt_data"
            /\ arg' = message
            /\ ret' = [encrypted |-> encrypted,
                       decrypted |-> decrypt_data(encrypted)]

\* bitwise exclusive or of two bytes
RECURSIVE Xor(_, _)
Xor(a, b) ==
    IF a = 0 THEN b
    ELSE IF b = 0 THEN a
    ELSE ((a + b) % 2) + 2 * Xor(a \div 2, b \div 2)

\* the block cipher under a key: a keyed permutation of the 16-byte blocks
\* and its inverse (AES.new(key, ...) of Cryptodome)
EncryptBlock(key, block) == [i \in 1..BlockSize |-> (block[i] + key[i]) % 256]
DecryptBlock(key, block) == [i \in 1..BlockSize |-> (block[i] + 256 - key[i]) % 256]
XorBlock(a, b) == [i \in 1..BlockSize |-> Xor(a[i], b[i])]

\* AES.new(key, AES.MODE_CBC, iv).encrypt: each block is xored with the
\* previous ciphertext block, the first with the iv, and then encrypted
RECURSIVE CbcEncrypt(_, _, _)
CbcEncrypt(key, previous, padded) ==
    IF padded = <<>> THEN <<>>
    ELSE LET block == EncryptBlock(key, XorBlock(SubSeq(padded, 1, BlockSize), previous))
         IN  block \o CbcEncrypt(key, block,
                                 SubSeq(padded, BlockSize + 1, Len(padded)))

\* AES.new(key, AES.MODE_CBC, iv).decrypt
RECURSIVE CbcDecrypt(_, _, _)
CbcDecrypt(key, previous, encrypted) ==
    IF encrypted = <<>> THEN <<>>
    ELSE LET block == SubSeq(encrypted, 1, BlockSize)
         IN  XorBlock(DecryptBlock(key, block), previous)
                 \o CbcDecrypt(key, block,
                               SubSeq(encrypted, BlockSize + 1, Len(encrypted)))

\* a padding that adds nothing to a payload of whole blocks
PadPayload_to_next_multiple(payload) ==
    LET padding_length == (BlockSize - (Len(payload) % BlockSize)) % BlockSize
    IN  payload \o [i \in 1..padding_length |-> padding_length]

\* encrypt_payload: padding_length and padded_payload
PadPayload(payload) ==
    LET padding_length == BlockSize - (Len(payload) % BlockSize)
    IN  payload \o [i \in 1..padding_length |-> padding_length]

\* encrypt_payload with the default key, iv being what get_random_bytes gave
encrypt_payload(payload, iv) ==
    iv \o CbcEncrypt(AES_KEY, iv, PadPayload(payload))

\* what stands for the bytes of a call that raised instead of returning
Raised == <<-1>>

\* decrypt_payload with the default key; decrypted[-1] raises IndexError on
\* an empty plaintext, and decrypted[:-padding_length] is empty when
\* padding_length is 0 or exceeds the length
decrypt_payload(encrypted_payload) ==
    LET iv        == Slice(encrypted_payload, 0, BlockSize)
        encrypted == Slice(encrypted_payload, BlockSize, Len(encrypted_payload))
        decrypted == CbcDecrypt(AES_KEY, iv, encrypted)
    IN  IF decrypted = <<>> THEN Raised
        ELSE LET padding_length == decrypted[Len(decrypted)]
             IN  IF padding_length = 0 \/ padding_length >= Len(decrypted)
                 THEN <<>>
                 ELSE SubSeq(decrypted, 1, Len(decrypted) - padding_length)

\* values get_random_bytes(16) can return
RandomIVs == {Fill(BlockSize, 0), Ramp(BlockSize, 200)}

\* encrypt_payload on a byte string, then decrypt_payload on the result
PayloadRoundTrip ==
    \E payload \in ByteStrings, iv \in RandomIVs :
        LET encrypted_payload == encrypt_payload(payload, iv)
        IN  /\ fn' = "encrypt_payload"
            /\ arg' = payload
            /\ ret' = [padded_payload    |-> PadPayload(payload),
                       iv                |-> iv,
                       encrypted_payload |-> encrypted_payload,
                       decrypted         |-> decrypt_payload(encrypted_payload)]

PureNext ==
    \/ ChunkSerial /\ UNCHANGED <<c2vars, simvars, trackervars, propvars, extvars>>
    \/ BuildResponse /\ UNCHANGED <<c2vars, simvars, trackervars, propvars, extvars>>
    \/ ProtocolRoundTrip /\ UNCHANGED <<c2vars, simvars, trackervars, propvars, extvars>>
    \/ PayloadRoundTrip /\ UNCHANGED <<c2vars, simvars, trackervars, propvars, extvars>>

InitPure == C2Init /\ SimDefault /\ PureIdle /\ TrackerIdle /\ PropIdle /\ ExtIdle

SpecPure == InitPure /\ [][PureNext]_vars

(***************************************************************************)
(* C12: serial chunking                                                    *)
(***************************************************************************)
RECURSIVE Concatenation(_)
Concatenation(chunks) ==
    IF chunks = <<>> THEN <<>> ELSE chunks[1] \o Concatenation(Tail(chunks))

\* C12: a serial of L bytes is split into ceil(L/14) chunks of at most 14
\* bytes each whose concatenation is the serial, and a serial request is
\* always answered with [0x02, 0, number of chunks] followed by chunk 0
C12_SerialChunking ==
    fn = "serial_request" =>
        LET L == Len(arg)
            chunks == ret.serial_chunks
        IN  /\ Len(chunks) = (L + BLE_CHUNK_SIZE - 1) \div BLE_CHUNK_SIZE
            /\ \A k \in 1..Len(chunks) : Len(chunks[k]) <= BLE_CHUNK_SIZE
            /\ Concatenation(chunks) = arg
            /\ ~ret.answer.raised
            /\ ret.answer.response =
                   _create_response(2, <<2, 0, Len(chunks)>> \o chunks[1])

\* the chunking alone, which holds of every serial, the empty one included
C12_ChunksOnly ==
    fn = "serial_request" =>
        LET L == Len(arg)
            chunks == ret.serial_chunks
        IN  /\ Len(chunks) = (L + BLE_CHUNK_SIZE - 1) \div BLE_CHUNK_SIZE
            /\ \A k \in 1..Len(chunks) :
                   Len(chunks[k]) >= 1 /\ Len(chunks[k]) <= BLE_CHUNK_SIZE
            /\ Concatenation(chunks) = arg
            /\ L >= 1 => /\ ~ret.answer.raised
                         /\ decrypt_data(ret.answer.response)[4] = 2
                         /\ decrypt_data(ret.answer.response)[5] = 0
                         /\ decrypt_data(ret.answer.response)[6] = Len(chunks)

\* the serial for which no chunk 0 exists
C12_EmptySerial ==
    /\ fn = "serial_request"
    /\ arg = <<>>
    /\ ret.serial_chunks = <<>>
    /\ ret.answer.raised
    /\ ret.answer.response = NoResponse


(***************************************************************************)
(* C13: response framing                                                   *)
(***************************************************************************)
\* C13: every response packet the simulator builds has magic 0x51, carries
\* the answered instruction at byte 2 and ends with the checksum
\* (-sum(preceding bytes)) & 0xFF, so validate_response accepts it for that
\* instruction; validate_response rejects a response whose magic,
\* instruction or checksum is wrong
C13_ResponseFraming ==
    fn = "_create_response" =>
        LET built == decrypt_data(ret.response)
            n     == Len(built)
        IN  /\ n = Len(arg.data) + 4
            /\ built[1] = 81
            /\ built[2] = Len(arg.data) + 3
            /\ built[3] = arg.instruction
            /\ SubSeq(built, 4, n - 1) = arg.data
            /\ (SeqSum(built)) % 256 = 0
            /\ ret.validated
            /\ ret.accepted <=> /\ arg.magic = 81
                                /\ arg.expected_instruction = arg.instruction
                                /\ arg.offset = 0

\* a built response is accepted, and a response with a damaged checksum, one
\* with another magic and one checked against another instruction are not
C13_Witness ==
    /\ fn = "_create_response"
    /\ arg.instruction = 255
    /\ arg.data = <<0>>
    /\ ret.validated
    /\ arg.magic = 81 /\ arg.offset = 1 /\ arg.expected_instruction = 255
    /\ ~ret.accepted


C15_PayloadRoundTrip ==
    fn = "encrypt_payload" =>
        LET padding_length == Len(ret.padded_payload) - Len(arg)
            padding == SubSeq(ret.padded_payload, Len(arg) + 1,
                              Len(ret.padded_payload))
            ciphertext == SubSeq(ret.encrypted_payload, 17,
                                 Len(ret.encrypted_payload))
        IN  /\ ret.decrypted = arg
            /\ padding_length \in 1..16
            /\ SubSeq(ret.padded_payload, 1, Len(arg)) = arg
            /\ \A i \in 1..padding_length : padding[i] = padding_length
            /\ SubSeq(ret.encrypted_payload, 1, 16) = ret.iv
            /\ Len(ciphertext) = Len(ret.padded_payload)
            /\ Len(ciphertext) % 16 = 0

\* a payload of exactly one block that ends in bytes looking like padding
\* gets a whole block of padding and is given back
C15_Witness ==
    /\ fn = "encrypt_payload"
    /\ arg = Fill(BlockSize, 1)
    /\ Len(ret.padded_payload) = 2 * BlockSize
    /\ ret.decrypted = arg


(***************************************************************************)
(* InfectionTracker (uniroam/propagation_engine.py)                        *)
(***************************************************************************)
MaxCalls == 5   \* calls that change the tracker, in one behaviour
MaxClock == 2   \* how far the clock advances, in ticks

OneHour == 2                  \* timedelta(hours=1), in ticks of the clock
PROPAGATION_RATE_LIMIT == 5   \* config.PROPAGATION_RATE_LIMIT
max_failures == 3             \* is_blacklisted: max_failures = 3

\* the device addresses a scan can report
Addresses == {"AA:BB:CC:DD:EE:01", "AA:BB:CC:DD:EE:02"}

\* dict.get(key, 0)
GetOr0(dict, key) == IF key \in DOMAIN dict THEN dict[key] ELSE 0

\* del dict[key], for a key that may be missing
Without(dict, key) == [k \in DOMAIN dict \ {key} |-> dict[k]]

\* dict[key] = value
With(dict, key, value) ==
    [k \in DOMAIN dict \cup {key} |-> IF k = key THEN value ELSE dict[k]]

\* InfectionTracker.is_infected, a query that changes nothing
tracker_is_infected(device_address) == device_address \in infected

\* is_blacklisted, with the default max_failures; changes nothing either
is_blacklisted(device_address) == GetOr0(failed, device_address) >= max_failures

\* should_rate_limit: the timestamps it keeps
Recent(times, current) == SelectSeq(times, LAMBDA t : current - t < OneHour)

\* a save that writes the sets as they were read before the update
_save_history_stale(new_infected, new_failed, save_ok) ==
    IF save_ok
    THEN [exists |-> TRUE, infected |-> infected, failed |-> failed]
    ELSE history_file

\* _save_history: the file after the call; an exception leaves it as it was
_save_history(new_infected, new_failed, save_ok) ==
    IF save_ok
    THEN [exists |-> TRUE, infected |-> new_infected, failed |-> new_failed]
    ELSE history_file

\* what a tracker call returned; for should_rate_limit, which reads the
\* clock, also when it was made
TrackerCall(op, device_address, result) ==
    [op |-> op, address |-> device_address, result |-> result,
     at |-> IF op = "should_rate_limit" THEN clock ELSE 0]

\* an __init__ that does not load the history file
TrackerConstructed_without_load ==
    /\ infected' = {}
    /\ failed' = <<>>
    /\ infection_times' = <<>>
    /\ tracker_out' = TrackerCall("__init__", NULL, FALSE)
    /\ marked' = <<>>
    /\ failures_since' = [a \in Addresses |-> 0]
    /\ carried' = [a \in Addresses |-> GetOr0(failed', a)]
    /\ UNCHANGED history_file

\* InfectionTracker.__init__: empty fields, then _load_history
TrackerConstructed ==
    /\ infected' = IF history_file.exists THEN history_file.infected ELSE {}
    /\ failed' = IF history_file.exists THEN history_file.failed ELSE <<>>
    /\ infection_times' = <<>>
    /\ tracker_out' = TrackerCall("__init__", NULL, FALSE)
    /\ marked' = <<>>
    /\ failures_since' = [a \in Addresses |-> 0]
    /\ carried' = [a \in Addresses |-> GetOr0(failed', a)]
    /\ UNCHANGED history_file

\* a mark_infected that keeps the failure count of the address
mark_infected_keeping_failures(device_address, save_ok) ==
        /\ infected' = infected \cup {device_address}
        /\ infection_times' = Append(infection_times, clock)
        /\ failed' = failed
        /\ history_file' = _save_history(infected', failed', save_ok)
        /\ tracker_out' = TrackerCall("mark_infected", device_address, TRUE)
        /\ marked' = Append(marked, clock)
        /\ failures_since' = [failures_since EXCEPT ![device_address] = 0]
        /\ carried' = [carried EXCEPT ![device_address] = 0]

\* mark_infected
mark_infected(device_address, save_ok) ==
        /\ infected' = infected \cup {device_address}
        /\ infection_times' = Append(infection_times, clock)
        /\ failed' = Without(failed, device_address)
        /\ history_file' = _save_history(infected', failed', save_ok)
        /\ tracker_out' = TrackerCall("mark_infected", device_address, TRUE)
        /\ marked' = Append(marked, clock)
        /\ failures_since' = [failures_since EXCEPT ![device_address] = 0]
        /\ carried' = [carried EXCEPT ![device_address] = 0]

\* mark_failed
mark_failed(device_address, save_ok) ==
        /\ failed' = With(failed, device_address, GetOr0(failed, device_address) + 1)
        /\ history_file' = _save_history(infected, failed', save_ok)
        /\ tracker_out' = TrackerCall("mark_failed", device_address, TRUE)
        /\ failures_since' = [failures_since EXCEPT ![device_address] = @ + 1]
        /\ UNCHANGED <<infected, infection_times, marked, carried>>

\* a should_rate_limit that keeps every timestamp
should_rate_limit_unpruned ==
    /\ infection_times' = infection_times
    /\ tracker_out' = TrackerCall("should_rate_limit", NULL,
                          Len(infection_times') >= PROPAGATION_RATE_LIMIT)
    /\ UNCHANGED <<infected, failed, history_file, marked, failures_since,
                   carried>>

\* should_rate_limit: prune, then compare with the limit
should_rate_limit ==
    /\ infection_times' = Recent(infection_times, clock)
    /\ tracker_out' = TrackerCall("should_rate_limit", NULL,
                          Len(infection_times') >= PROPAGATION_RATE_LIMIT)
    /\ UNCHANGED <<infected, failed, history_file, marked, failures_since,
                   carried>>

\* ---- the tracker driven by a caller
NotTracker == <<c2vars, simvars, purevars, propvars, extvars>>

MarkInfected ==
    \E a \in Addresses :
        /\ tracker_calls < MaxCalls
        /\ tracker_calls' = tracker_calls + 1
        /\ \E save_ok \in BOOLEAN : mark_infected(a, save_ok)
        /\ UNCHANGED <<clock, NotTracker>>

MarkFailed ==
    \E a \in Addresses :
        /\ tracker_calls < MaxCalls
        /\ tracker_calls' = tracker_calls + 1
        /\ \E save_ok \in BOOLEAN : mark_failed(a, save_ok)
        /\ UNCHANGED <<clock, NotTracker>>

ShouldRateLimit ==
    /\ should_rate_limit
    /\ UNCHANGED <<clock, tracker_calls, NotTracker>>

\* the agent is started again: a new InfectionTracker reads the history file
NewTracker ==
    /\ tracker_calls < MaxCalls
    /\ tracker_calls' = tracker_calls + 1
    /\ TrackerConstructed
    /\ UNCHANGED <<clock, NotTracker>>

\* time passes
TimePasses ==
    /\ clock < MaxClock
    /\ clock' = clock + 1
    /\ UNCHANGED <<infected, failed, infection_times, history_file,
                   tracker_out, marked, failures_since, carried,
                   tracker_calls, NotTracker>>

TrackerNext ==
    \/ MarkInfected
    \/ MarkFailed
    \/ ShouldRateLimit
    \/ NewTracker
    \/ TimePasses

\* a first InfectionTracker on a machine without a history file
InitTracker ==
    /\ C2Init /\ SimDefault /\ PureIdle /\ PropIdle /\ ExtIdle
    /\ infected = {}
    /\ failed = <<>>
    /\ infection_times = <<>>
    /\ history_file = NoHistoryFile
    /\ clock = 0
    /\ tracker_out = [op |-> "__init__", address |-> NULL, result |-> FALSE, at |-> 0]
    /\ marked = <<>>
    /\ failures_since = [a \in Addresses |-> 0]
    /\ carried = [a \in Addresses |-> 0]
    /\ tracker_calls = 0

SpecTracker == InitTracker /\ [][TrackerNext]_vars


(***************************************************************************)
(* C16: failure accounting of the InfectionTracker                         *)
(***************************************************************************)
\* the step is a mark_infected call on the given address
MarkInfectedCalled(a) ==
    /\ tracker_calls' # tracker_calls
    /\ tracker_out'.op = "mark_infected"
    /\ tracker_out'.address = a

\* what mark_infected(a) does to a and to the other addresses
MarkInfectedEffect(a) ==
    /\ a \in infected'
    /\ a \notin DOMAIN failed'
    /\ \A b \in Addresses \ {a} :
          /\ b \in infected' <=> b \in infected
          /\ b \in DOMAIN failed' <=> b \in DOMAIN failed
          /\ GetOr0(failed', b) = GetOr0(failed, b)

\* C16: for every address a, is_blacklisted(a) is true exactly when at least
\* 3 mark_failed(a) calls have occurred since the last mark_infected(a), or
\* since construction; mark_infected(a) makes is_infected(a) true, clears
\* a's failure count and changes the state of no other address
C16_BlacklistByCallsSinceConstruction ==
    /\ [](\A a \in Addresses : is_blacklisted(a) <=> failures_since[a] >= 3)
    /\ [][\A a \in Addresses : MarkInfectedCalled(a) => MarkInfectedEffect(a)]_vars

\* C16, with the failures read from the history file counted: is_blacklisted(a)
\* is true exactly when the failure count the tracker was constructed with
\* (kept until a mark_infected(a)) plus the mark_failed(a) calls since the
\* last mark_infected(a), or since construction, is at least 3; mark_infected(a)
\* makes is_infected(a) true, clears a's failure count and changes the state
\* of no other address
C16_BlacklistByStoredAndNewFailures ==
    /\ [](\A a \in Addresses :
             is_blacklisted(a) <=> carried[a] + failures_since[a] >= 3)
    /\ [][\A a \in Addresses : MarkInfectedCalled(a) => MarkInfectedEffect(a)]_vars

\* a tracker constructed over a history with three failures of one address
\* has it blacklisted, and a mark_infected of the other address has just
\* left that as it was
C16_Witness ==
    /\ tracker_out.op = "mark_infected"
    /\ \E a \in Addresses :
          /\ tracker_out.address # a
          /\ is_blacklisted(a)
          /\ carried[a] = 3
          /\ failures_since[a] = 0
          /\ ~tracker_is_infected(a)

(***************************************************************************)
(* C17: should_rate_limit                                                  *)
(***************************************************************************)
\* the mark_infected calls of this tracker made less than an hour before
WithinTrailingHour(at_time) ==
    {i \in DOMAIN marked : at_time - marked[i] < OneHour}

\* C17: should_rate_limit returns true exactly when the number of
\* mark_infected calls recorded within the trailing hour is at least the
\* limit of 5, and the timestamps older than that are pruned: what the
\* tracker keeps are the timestamps of exactly those calls
C17_RateLimitByTrailingHour ==
    tracker_out.op = "should_rate_limit" =>
        /\ tracker_out.result <=>
               Cardinality(WithinTrailingHour(tracker_out.at)) >= 5
        /\ Len(infection_times) = Cardinality(WithinTrailingHour(tracker_out.at))
        /\ \A i \in DOMAIN infection_times :
               tracker_out.at - infection_times[i] < OneHour

\* five infections were marked, and an hour later the limit no longer applies
C17_Witness ==
    /\ tracker_out.op = "should_rate_limit"
    /\ Len(marked) = 5
    /\ ~tracker_out.result
    /\ infection_times = <<>>


(***************************************************************************)
(* WormPropagator (uniroam/propagation_engine.py): the BLE propagation     *)
(* loop of one agent, with the tasks it creates and the flag the task      *)
(* executor sets and clears                                               *)
(***************************************************************************)
MaxScans == 2    \* scans started in one behaviour
MaxFaults == 1   \* exploits that fail and callbacks that raise, in one behaviour

PROPAGATION_MAX_CONCURRENT == 3   \* config.PROPAGATION_MAX_CONCURRENT

\* the robots in radio range
Robots == Addresses \cup {"AA:BB:CC:DD:EE:03", "AA:BB:CC:DD:EE:04",
                          "AA:BB:CC:DD:EE:05", "AA:BB:CC:DD:EE:06"}

\* what scan_for_robots can return: nothing (also when it raises), four
\* robots at once, three robots
ScanResults ==
    {<<>>,
     <<"AA:BB:CC:DD:EE:01", "AA:BB:CC:DD:EE:02", "AA:BB:CC:DD:EE:03",
       "AA:BB:CC:DD:EE:04">>,
     <<"AA:BB:CC:DD:EE:04", "AA:BB:CC:DD:EE:05", "AA:BB:CC:DD:EE:06">>}

TrackerUntouched ==
    UNCHANGED <<infected, failed, infection_times, history_file, tracker_out,
                marked, failures_since, carried>>

NotPropagator == <<c2vars, simvars, purevars, clock, tracker_calls, extvars>>

\* a scan that hands on every robot it found
Targets_unfiltered(all_robots) == all_robots

\* scan_ble_targets: the robots neither infected nor blacklisted
Targets(all_robots) ==
    SelectSeq(all_robots,
              LAMBDA robot : ~tracker_is_infected(robot) /\ ~is_blacklisted(robot))

\* propagate_ble: one task per target among the first three, created while
\* active_infections is below the limit; no task runs before the gather.
\* Each task carries what its infect_target call has recorded in the tracker
\* and what it has returned
CreatedTasks(targets) ==
    LET first == SubSeq(targets, 1, Min(Len(targets), PROPAGATION_MAX_CONCURRENT))
    IN  IF active_infections < PROPAGATION_MAX_CONCURRENT
        THEN [i \in 1..Len(first) |->
                 [target |-> first[i], at |-> "created",
                  recorded |-> {}, returned |-> "nothing"]]
        ELSE <<>>

\* a loop that scans whatever the flag says
LoopCheck_ignoring_flag ==
    /\ pc \in {"idle", "check"}
    /\ scan_count < MaxScans
    /\ scan_count' = scan_count + 1
    /\ pc' = "scanning"
    /\ TrackerUntouched
    /\ UNCHANGED <<propagation_enabled, active_infections, total_infected,
                   attempts, found, faults, NotPropagator>>

\* propagate_ble is called, or comes back to `while self.propagation_enabled`:
\* it leaves the loop, or enters scan_ble_targets, which counts the scan
LoopCheck ==
    /\ pc \in {"idle", "check"}
    /\ IF propagation_enabled
       THEN /\ scan_count < MaxScans
            /\ scan_count' = scan_count + 1
            /\ pc' = "scanning"
       ELSE /\ pc' = "done"
            /\ UNCHANGED scan_count
    /\ TrackerUntouched
    /\ UNCHANGED <<propagation_enabled, active_infections, total_infected,
                   attempts, found, faults, NotPropagator>>

\* a loop without its except clause: a callback that raises ends it
ScanReturns_without_except ==
    \E all_robots \in ScanResults, callback_ok \in BOOLEAN :
        LET targets == Targets(all_robots)
        IN  /\ pc = "scanning"
            /\ found' = targets
            /\ IF targets = <<>>
               THEN /\ callback_ok
                    /\ pc' = "sleeping"
                    /\ attempts' = <<>>
                    /\ UNCHANGED faults
               ELSE IF ~callback_ok
               THEN /\ faults < MaxFaults
                    /\ faults' = faults + 1
                    /\ pc' = "done"
                    /\ attempts' = <<>>
               ELSE /\ attempts' = CreatedTasks(targets)
                    /\ pc' = IF attempts' = <<>> THEN "sleeping" ELSE "gathering"
                    /\ UNCHANGED faults
            /\ TrackerUntouched
            /\ UNCHANGED <<propagation_enabled, active_infections,
                           total_infected, scan_count, NotPropagator>>

\* scan_for_robots returns, the targets are reported to the C2 and the tasks
\* are created; a callback that raises sends the loop to its 60 s sleep
ScanReturns ==
    \E all_robots \in ScanResults, callback_ok \in BOOLEAN :
        LET targets == Targets(all_robots)
        IN  /\ pc = "scanning"
            /\ found' = targets
            /\ IF targets = <<>>
               THEN /\ callback_ok
                    /\ pc' = "sleeping"
                    /\ attempts' = <<>>
                    /\ UNCHANGED faults
               ELSE IF ~callback_ok
               THEN /\ faults < MaxFaults
                    /\ faults' = faults + 1
                    /\ pc' = "backoff"
                    /\ attempts' = <<>>
               ELSE /\ attempts' = CreatedTasks(targets)
                    /\ pc' = IF attempts' = <<>> THEN "sleeping" ELSE "gathering"
                    /\ UNCHANGED faults
            /\ TrackerUntouched
            /\ UNCHANGED <<propagation_enabled, active_infections,
                           total_infected, scan_count, NotPropagator>>

\* infect_target starts, the tasks in the order of their creation:
\* should_rate_limit, then either the 60..180 s sleep or the increment and
\* the exploit
AttemptStarts ==
    \E i \in DOMAIN attempts :
        /\ pc = "gathering"
        /\ attempts[i].at = "created"
        /\ \A j \in 1..(i - 1) : attempts[j].at # "created"
        /\ should_rate_limit
        /\ IF tracker_out'.result
           THEN /\ attempts' = [attempts EXCEPT ![i].at = "waiting"]
                /\ UNCHANGED active_infections
           ELSE /\ attempts' = [attempts EXCEPT ![i].at = "exploiting"]
                /\ active_infections' = active_infections + 1
        /\ UNCHANGED <<propagation_enabled, total_infected, scan_count, pc,
                       found, faults, NotPropagator>>

\* the rate-limit sleep of infect_target ends: the attempt goes on
AttemptResumes ==
    \E i \in DOMAIN attempts :
        /\ attempts[i].at = "waiting"
        /\ attempts' = [attempts EXCEPT ![i].at = "exploiting"]
        /\ active_infections' = active_infections + 1
        /\ TrackerUntouched
        /\ UNCHANGED <<propagation_enabled, total_infected, scan_count, pc,
                       found, faults, NotPropagator>>

\* an exploit whose failure skips the decrement
ExploitReturns_without_finally ==
    \E i \in DOMAIN attempts, success \in BOOLEAN :
        /\ attempts[i].at = "exploiting"
        /\ IF success
           THEN /\ mark_infected(attempts[i].target, TRUE)
                /\ total_infected' = total_infected + 1
                /\ attempts' = [attempts EXCEPT ![i].at = "reporting",
                                                ![i].recorded = {"infected"}]
                /\ UNCHANGED <<active_infections, faults>>
           ELSE /\ faults < MaxFaults
                /\ faults' = faults + 1
                /\ mark_failed(attempts[i].target, TRUE)
                /\ attempts' = [attempts EXCEPT ![i].at = "done",
                                                ![i].recorded = {"failed"},
                                                ![i].returned = "False"]
                /\ UNCHANGED <<total_infected, active_infections>>
        /\ UNCHANGED <<propagation_enabled, scan_count, pc, found,
                       NotPropagator>>

\* execute_command returns or raises: on success mark_infected, the count
\* and the report to the C2; otherwise mark_failed and the finally clause
ExploitReturns ==
    \E i \in DOMAIN attempts, success \in BOOLEAN :
        /\ attempts[i].at = "exploiting"
        /\ IF success
           THEN /\ mark_infected(attempts[i].target, TRUE)
                /\ total_infected' = total_infected + 1
                /\ attempts' = [attempts EXCEPT ![i].at = "reporting",
                                                ![i].recorded = {"infected"}]
                /\ UNCHANGED <<active_infections, faults>>
           ELSE /\ faults < MaxFaults
                /\ faults' = faults + 1
                /\ mark_failed(attempts[i].target, TRUE)
                /\ attempts' = [attempts EXCEPT ![i].at = "done",
                                                ![i].recorded = {"failed"},
                                                ![i].returned = "False"]
                /\ active_infections' = active_infections - 1
                /\ UNCHANGED total_infected
        /\ UNCHANGED <<propagation_enabled, scan_count, pc, found,
                       NotPropagator>>

\* the c2_callback of a successful attempt returns, or raises and the except
\* clause calls mark_failed; then the finally clause
CallbackReturns ==
    \E i \in DOMAIN attempts, callback_ok \in BOOLEAN :
        /\ attempts[i].at = "reporting"
        /\ IF callback_ok
           THEN /\ TrackerUntouched
                /\ attempts' = [attempts EXCEPT ![i].at = "done",
                                                ![i].returned = "True"]
                /\ UNCHANGED faults
           ELSE /\ faults < MaxFaults
                /\ faults' = faults + 1
                /\ mark_failed(attempts[i].target, TRUE)
                /\ attempts' = [attempts EXCEPT
                                   ![i].at = "done",
                                   ![i].recorded = @ \cup {"failed"},
                                   ![i].returned = "False"]
        /\ active_infections' = active_infections - 1
        /\ UNCHANGED <<propagation_enabled, total_infected, scan_count, pc,
                       found, NotPropagator>>

\* asyncio.gather returns when every task is done; the interval sleep begins
GatherReturns ==
    /\ pc = "gathering"
    /\ \A i \in DOMAIN attempts : attempts[i].at = "done"
    /\ pc' = "sleeping"
    /\ attempts' = <<>>
    /\ TrackerUntouched
    /\ UNCHANGED <<propagation_enabled, active_infections, total_infected,
                   scan_count, found, faults, NotPropagator>>

\* the interval sleep, or the 60 s sleep after an exception, ends
SleepEnds ==
    /\ pc \in {"sleeping", "backoff"}
    /\ pc' = "check"
    /\ TrackerUntouched
    /\ UNCHANGED <<propagation_enabled, active_infections, total_infected,
                   scan_count, attempts, found, faults, NotPropagator>>

\* TaskExecutor: PROPAGATE_STOP (stop_propagation) and PROPAGATE_START
SetFlag(value) ==
    /\ propagation_enabled # value
    /\ propagation_enabled' = value
    /\ TrackerUntouched
    /\ UNCHANGED <<active_infections, total_infected, scan_count, pc,
                   attempts, found, faults, NotPropagator>>

stop_propagation == SetFlag(FALSE)
PropagateStart == SetFlag(TRUE)

LoopSteps ==
    \/ LoopCheck
    \/ ScanReturns
    \/ AttemptStarts
    \/ AttemptResumes
    \/ ExploitReturns
    \/ CallbackReturns
    \/ GatherReturns
    \/ SleepEnds

PropNext ==
    \/ LoopSteps
    \/ stop_propagation
    \/ PropagateStart

\* WormAgent.run: a new WormPropagator on a machine without a history file;
\* the run is followed for less than one tick of the clock
InitProp ==
    /\ C2Init /\ SimDefault /\ PureIdle /\ PropIdle /\ ExtIdle
    /\ infected = {}
    /\ failed = <<>>
    /\ infection_times = <<>>
    /\ history_file = NoHistoryFile
    /\ clock = 0
    /\ tracker_out = [op |-> "__init__", address |-> NULL, result |-> FALSE, at |-> 0]
    /\ marked = <<>>
    /\ failures_since = [a \in Robots |-> 0]
    /\ carried = [a \in Robots |-> 0]
    /\ tracker_calls = 0

SpecProp == InitProp /\ [][PropNext]_vars

\* the history file an earlier run of the agent has left: robot 01 infected,
\* two failures on robot 02, robot 03 blacklisted
StoredHistory ==
    [exists |-> TRUE,
     infected |-> {"AA:BB:CC:DD:EE:01"},
     failed |-> ("AA:BB:CC:DD:EE:02" :> 2 @@ "AA:BB:CC:DD:EE:03" :> 3)]

\* WormAgent.run on a machine with that history file or with none:
\* InfectionTracker's __init__ has loaded what there is
InitPropResumed ==
    /\ C2Init /\ SimDefault /\ PureIdle /\ PropIdle /\ ExtIdle
    /\ history_file \in {NoHistoryFile, StoredHistory}
    /\ infected = IF history_file.exists THEN history_file.infected ELSE {}
    /\ failed = IF history_file.exists THEN history_file.failed ELSE <<>>
    /\ infection_times = <<>>
    /\ clock = 0
    /\ tracker_out = [op |-> "__init__", address |-> NULL, result |-> FALSE, at |-> 0]
    /\ marked = <<>>
    /\ failures_since = [a \in Robots |-> 0]
    /\ carried = [a \in Robots |-> GetOr0(failed, a)]
    /\ tracker_calls = 0

SpecPropResumed == InitPropResumed /\ [][PropNext]_vars

\* the event loop runs every task that can run: sleeps end, scans and
\* exploits return, and the loop goes on
SpecPropFair == SpecProp /\ WF_vars(LoopSteps)


(***************************************************************************)
(* C18: the rate limit of the propagation                                  *)
(***************************************************************************)
\* the mark_infected calls made in the hour that ends at the given time
MarkedInHourEndingAt(end) ==
    {i \in DOMAIN marked : marked[i] <= end /\ end - marked[i] < OneHour}

\* C18: in every run of a WormPropagator at most 5 targets are marked
\* infected within any trailing one-hour window
C18_AtMostFivePerHour ==
    \A end \in 0..MaxClock :
        Cardinality(MarkedInHourEndingAt(end)) <= PROPAGATION_RATE_LIMIT

\* an attempt that found the limit reached and slept has gone on, and a
\* sixth target is marked infected while five infections are less than an
\* hour old
C18_SixthWithinTheHour ==
    /\ tracker_out.op = "mark_infected"
    /\ Len(marked) = 6
    /\ total_infected = 6
    /\ Cardinality(infected) = 6
    /\ Len(infection_times) = 6

\* the attempt that finds the limit reached only sleeps
C18_LimitedAttemptWaits ==
    /\ tracker_out.op = "should_rate_limit"
    /\ tracker_out.result
    /\ \E i \in DOMAIN attempts : attempts[i].at = "waiting"

(***************************************************************************)
(* C19: bounded concurrency                                                *)
(***************************************************************************)
\* the attempts between the increment and the finally clause
InFlight == {i \in DOMAIN attempts : attempts[i].at \in {"exploiting", "reporting"}}

\* C19: in every reachable state of the propagation loop
\* 0 <= active_infections <= 3; the counter is incremented and decremented
\* around each attempt whatever its outcome, so it counts the attempts that
\* are between the two; and every attempt launched in an iteration has
\* completed, the counter being back to 0, before the next scan begins
C19_BoundedConcurrency ==
    /\ [](/\ active_infections \in 0..3
          /\ active_infections = Cardinality(InFlight)
          /\ pc # "gathering" => attempts = <<>> /\ active_infections = 0)
    /\ [][scan_count' # scan_count =>
              /\ active_infections = 0
              /\ attempts = <<>>]_vars

\* three attempts of the second iteration are in flight at once, after an
\* attempt of the first iteration failed
C19_Witness ==
    /\ scan_count = 2
    /\ active_infections = 3
    /\ faults = 1
    /\ \E a \in Robots : GetOr0(failed, a) = 1

(***************************************************************************)
(* C20: cooperative cancellation                                           *)
(***************************************************************************)
\* C20: once the enable flag is cleared and stays cleared, the loop starts
\* no scan after its next loop-condition check and eventually terminates;
\* it stops only at that check, so that the iteration in progress is not
\* interrupted: clearing the flag changes nothing else, a scan starts only
\* at a check that finds the flag set, the loop ends only at a check that
\* finds it cleared, with no attempt left, and stays ended
C20_CooperativeCancellation ==
    /\ [][scan_count' # scan_count => propagation_enabled /\ pc \in {"idle", "check"}]_vars
    /\ [][pc' = "done" /\ pc # "done" =>
              /\ pc \in {"idle", "check"}
              /\ ~propagation_enabled
              /\ attempts = <<>>
              /\ active_infections = 0]_vars
    /\ [][pc = "done" => pc' = "done" /\ scan_count' = scan_count]_vars
    /\ [][propagation_enabled /\ ~propagation_enabled' =>
              pc' = pc /\ attempts' = attempts]_vars
    /\ ~propagation_enabled ~> (pc = "done" \/ propagation_enabled)

\* the loop has ended with the flag cleared, after a scan whose attempts
\* were all carried through
C20_Witness ==
    /\ pc = "done"
    /\ ~propagation_enabled
    /\ scan_count = 1
    /\ total_infected = 3


(***************************************************************************)
(* C21: resilience of the propagation loop                                 *)
(***************************************************************************)
\* C21: while the enable flag is set, no failure inside an iteration of the
\* propagation loop (a scan error, a callback error, a failed or raising
\* attempt) ends the loop: the loop ends only at a check that finds the flag
\* cleared, after a failure it sleeps and comes back to its check, and a
\* check that finds the flag set begins another scan
C21_LoopResilience ==
    /\ [][pc' = "done" /\ pc # "done" => ~propagation_enabled]_vars
    /\ [][faults' # faults => pc' \in {"backoff", "gathering"}]_vars
    /\ [][pc = "check" /\ pc' # pc /\ propagation_enabled => pc' = "scanning"]_vars
    /\ (pc \in {"scanning", "gathering", "sleeping", "backoff"}) ~> (pc = "check")

\* after a failure in the first iteration, the second scan is under way
C21_Witness ==
    /\ faults = 1
    /\ scan_count = 2
    /\ pc = "scanning"
    /\ propagation_enabled


(***************************************************************************)
(* C29: the outcome of one infect_target call                              *)
(***************************************************************************)
\* C29: every completed infect_target call has recorded exactly one
\* outcome: it has marked its target infected and returned True, or it has
\* marked the attempt failed and returned False, never both
C29_ExactlyOneOutcome ==
    \A i \in DOMAIN attempts :
        attempts[i].at = "done" =>
            \/ attempts[i].recorded = {"infected"} /\ attempts[i].returned = "True"
            \/ attempts[i].recorded = {"failed"} /\ attempts[i].returned = "False"


(***************************************************************************)
(* C28: no attack on an infected or blacklisted address                    *)
(***************************************************************************)
\* the attempts that have not yet recorded an outcome
Pending == {i \in DOMAIN attempts :
                attempts[i].at \in {"created", "waiting", "exploiting"}}

\* C28: no infection attempt is created, started or under way against an
\* address that is marked infected or blacklisted (such addresses stay so,
\* hence neither was it when the scan returned); an address marked infected
\* is therefore not attacked again, and no failure count exceeds 3
C28_NoReattack ==
    /\ \A i \in Pending :
          /\ ~tracker_is_infected(attempts[i].target)
          /\ ~is_blacklisted(attempts[i].target)
    /\ \A a \in Robots : GetOr0(failed, a) <= max_failures

\* robot 02 has failed a third time and robot 04 has been infected in the
\* first iteration; of the second scan's 04, 05, 06 only 05 and 06 are
\* targets, and their attempts are created
C28_Witness ==
    /\ scan_count = 2
    /\ pc = "gathering"
    /\ GetOr0(failed, "AA:BB:CC:DD:EE:02") = 3
    /\ "AA:BB:CC:DD:EE:04" \in infected
    /\ found = <<"AA:BB:CC:DD:EE:05", "AA:BB:CC:DD:EE:06">>
    /\ Pending # {}


(***************************************************************************)
(* C24: the history file under the attempts of one fan-out                 *)
(***************************************************************************)
\* what attempt i has recorded is in the history file
Persisted(i) ==
    /\ history_file.exists
    /\ "infected" \in attempts[i].recorded =>
           attempts[i].target \in history_file.infected
    /\ "failed" \in attempts[i].recorded =>
           GetOr0(history_file.failed, attempts[i].target) >= 1

\* the file lacks an address or a failure count that an attempt of the
\* current fan-out has recorded
LostUpdate ==
    \E i \in DOMAIN attempts :
        attempts[i].recorded # {} /\ ~Persisted(i)

MaxQueued == 2       \* tasks the operator creates for the agent
MaxAgentClock == 4   \* how far the agent's clock advances, in ticks of 12 h

DEAD_MANS_SWITCH_ENABLED == TRUE   \* config.DEAD_MANS_SWITCH_ENABLED
DEAD_MANS_SWITCH_INTERVAL == 2     \* timedelta(hours=24), in ticks of 12 h

\* WormAgent.robot_id
AgentId == "Go2_SIM_0001"

\* the task types the operator queues here
QueuedTypes == {"EXECUTE_CMD", "SELF_DESTRUCT"}

\* the ids secrets.token_hex hands out for them, in any order
QueuedIds == {TokenPool[i] : i \in 1..MaxQueued}

\* KillSwitch.check_dead_mans_switch
check_dead_mans_switch(last_c2_contact) ==
    IF ~DEAD_MANS_SWITCH_ENABLED
    THEN FALSE
    ELSE agent_clock - last_c2_contact > DEAD_MANS_SWITCH_INTERVAL

\* TaskExecutor.execute_task: what one task can lead to.  `exits` is
\* sys.exit(0) at the end of self_destruct, which no handler catches;
\* `flag` is what becomes of propagator.propagation_enabled
Executed(success, error, exits, flag) ==
    [result |-> [success |-> success, error |-> error], exits |-> exits,
     flag |-> flag]

execute_task(task_type) ==
    IF task_type = "PROPAGATE_START"
    THEN {Executed(TRUE, NULL, FALSE, "set")}
    ELSE IF task_type = "PROPAGATE_STOP"
    THEN {Executed(TRUE, NULL, FALSE, "cleared")}
    ELSE IF task_type \in {"EXECUTE_CMD", "COLLECT_INTEL"}
    THEN {Executed(TRUE, NULL, FALSE, "kept"),
          Executed(FALSE, "raised", FALSE, "kept")}
    ELSE IF task_type = "SELF_DESTRUCT"
    THEN {Executed(FALSE, NULL, TRUE, "cleared"),
          Executed(FALSE, "raised", FALSE, "cleared")}
    ELSE IF task_type = "UPDATE_PAYLOAD"
    THEN {Executed(FALSE, NULL, FALSE, "kept")}
    ELSE {Executed(FALSE, "Unknown task type", FALSE, "kept")}

\* what the agent's steps leave alone, apart from the tasks table, the
\* server's clock and the propagator's flag
NotAgent == <<robots, beacons, events, req, resp, delivered, simvars, purevars,
              trackervars, active_infections, total_infected, scan_count, pc,
              attempts, found, faults, blevars, testvars, coordvars,
              sessionvars, pollvars>>

\* C2Client.beacon, first call of an iteration: a 200 sets last_beacon,
\* anything else is swallowed
BeaconSent ==
    \E ok \in BOOLEAN :
        /\ agent_at = "beacon"
        /\ last_beacon' = IF ok THEN agent_clock ELSE last_beacon
        /\ last_failure' = IF ok THEN "none" ELSE "beacon"
        /\ agent_at' = "fetch"
        /\ UNCHANGED <<running, fetched, task_index, task_result, journal,
                       exit_cause, agent_clock, tasks, now,
                       propagation_enabled, NotAgent>>

\* C2Client.get_tasks: the server's get_pending_tasks and its answer; a
\* failed request gives the empty list, whether or not the server has
\* marked the rows
TasksFetched ==
    \E ok \in BOOLEAN, served \in BOOLEAN :
        LET answer == get_pending_tasks(tasks, AgentId)
        IN  /\ agent_at = "fetch"
            /\ ok => served
            /\ tasks' = IF served THEN answer.table ELSE tasks
            /\ fetched' = IF ok THEN answer.returned ELSE <<>>
            /\ last_failure' = IF ok THEN "none" ELSE "fetch"
            /\ task_index' = 1
            /\ journal' = <<>>
            /\ agent_at' = IF fetched' = <<>> THEN "sleep" ELSE "execute"
            /\ UNCHANGED <<running, last_beacon, task_result, exit_cause,
                           agent_clock, now, propagation_enabled, NotAgent>>

\* execute_task on the current task
TaskExecuted ==
    /\ agent_at = "execute"
    /\ \E o \in execute_task(fetched[task_index].type) :
          /\ propagation_enabled' =
                IF o.flag = "set" THEN TRUE
                ELSE IF o.flag = "cleared" THEN FALSE
                ELSE propagation_enabled
          /\ journal' = Append(journal, [step |-> "execute",
                                         id |-> fetched[task_index].id])
          /\ task_result' = o.result
          /\ last_failure' = IF o.result.error = "raised"
                             THEN "execute" ELSE "none"
          /\ IF o.exits
             THEN agent_at' = "exited" /\ exit_cause' = "SELF_DESTRUCT"
             ELSE agent_at' = "report" /\ UNCHANGED exit_cause
    /\ UNCHANGED <<running, last_beacon, fetched, task_index, agent_clock,
                   tasks, now, NotAgent>>

\* C2Client.report_result: the server's update_task_result, or a failure
\* that is swallowed; then the next task, or the interval sleep
ResultReported ==
    \E ok \in BOOLEAN :
        /\ agent_at = "report"
        /\ IF ok
           THEN /\ tasks' = update_task_result(tasks, fetched[task_index].id,
                                               task_result, now)
                /\ last_failure' = "none"
           ELSE /\ last_failure' = "report"
                /\ UNCHANGED tasks
        /\ journal' = Append(journal, [step |-> "report",
                                       id |-> fetched[task_index].id])
        /\ task_index' = task_index + 1
        /\ agent_at' = IF task_index < Len(fetched) THEN "execute" ELSE "sleep"
        /\ task_result' = [success |-> FALSE, error |-> NULL]
        /\ UNCHANGED <<running, last_beacon, fetched, exit_cause, agent_clock,
                       now, propagation_enabled, NotAgent>>

\* an iteration whose exception ends the loop
IterationRaises_ending_loop ==
    /\ agent_at \in {"beacon", "fetch", "execute", "report"}
    /\ agent_at' = "exited"
    /\ last_failure' = "iteration"
    /\ UNCHANGED <<running, last_beacon, fetched, task_index, task_result,
                   journal, exit_cause, agent_clock, tasks, now,
                   propagation_enabled, NotAgent>>

\* an exception that none of the calls has swallowed (raised outside their
\* try blocks, or by the loop over a malformed task list): `except
\* Exception`, then the 60 s sleep
IterationRaises ==
    /\ agent_at \in {"beacon", "fetch", "execute", "report"}
    /\ agent_at' = "backoff"
    /\ last_failure' = "iteration"
    /\ UNCHANGED <<running, last_beacon, fetched, task_index, task_result,
                   journal, exit_cause, agent_clock, tasks, now,
                   propagation_enabled, NotAgent>>

\* the interval sleep or the 60 s sleep ends: `while self.running`
SleepOver ==
    /\ agent_at \in {"sleep", "backoff"}
    /\ agent_at' = IF running THEN "beacon" ELSE "returned"
    /\ last_failure' = "none"
    /\ fetched' = <<>>
    /\ task_index' = 0
    /\ journal' = <<>>
    /\ UNCHANGED <<running, last_beacon, task_result, exit_cause,
                   agent_clock, tasks, now, propagation_enabled, NotAgent>>

\* WormAgent.c2_callback: an event of the propagation loop, sent by the
\* same C2Client.beacon
EventReported ==
    \E ok \in BOOLEAN :
        /\ agent_at \notin {"exited", "returned"}
        /\ last_beacon' = IF ok THEN agent_clock ELSE last_beacon
        /\ last_beacon' # last_beacon
        /\ UNCHANGED <<running, agent_at, fetched, task_index, task_result,
                       journal, last_failure, exit_cause, agent_clock, tasks,
                       now, propagation_enabled, NotAgent>>

\* the operator queues a task for the agent (C2Database.create_task)
TaskQueued ==
    \E task_id \in QueuedIds \ DOMAIN tasks, task_type \in QueuedTypes :
        /\ Cardinality(DOMAIN tasks) < MaxQueued
        /\ tasks' = db_create_task(tasks, task_id, AgentId, task_type, "{}", now)
        /\ now' = now + 1
        /\ UNCHANGED <<agentvars, propagation_enabled, NotAgent>>

\* twelve hours pass
HalfDayPasses ==
    /\ agent_clock < MaxAgentClock
    /\ agent_clock' = agent_clock + 1
    /\ UNCHANGED <<running, agent_at, last_beacon, fetched, task_index,
                   task_result, journal, last_failure, exit_cause, tasks, now,
                   propagation_enabled, NotAgent>>

BeaconLoopSteps ==
    \/ BeaconSent
    \/ TasksFetched
    \/ TaskExecuted
    \/ ResultReported
    \/ IterationRaises
    \/ SleepOver

\* the agent and the operator who queues its tasks, within twelve hours
AgentNext ==
    \/ BeaconLoopSteps
    \/ TaskQueued

\* the beacon loop of an agent for which no task is queued
IdleLoopSteps ==
    \/ BeaconSent
    \/ TasksFetched
    \/ IterationRaises
    \/ SleepOver

\* that agent over the days, with the events of its propagation loop
SilentNext ==
    \/ IdleLoopSteps
    \/ EventReported
    \/ HalfDayPasses

\* WormAgent.run has set running and made the propagator; its agent_started
\* event has not reached the C2; beacon_loop begins
InitAgent ==
    /\ C2Init /\ SimDefault /\ PureIdle /\ TrackerIdle /\ PropIdle
    /\ BleIdle /\ TestIdle /\ CoordIdle /\ SessionIdle /\ PollIdle
    /\ running = TRUE
    /\ agent_at = "beacon"
    /\ last_beacon = NoTime
    /\ fetched = <<>>
    /\ task_index = 0
    /\ task_result = [success |-> FALSE, error |-> NULL]
    /\ journal = <<>>
    /\ last_failure = "none"
    /\ exit_cause = "none"
    /\ agent_clock = 0

SpecAgent == InitAgent /\ [][AgentNext]_vars

\* the event loop runs the beacon loop whenever it can run: the requests
\* return or time out, the subprocess of a command ends, the sleeps end
SpecAgentFair == SpecAgent /\ WF_vars(BeaconLoopSteps)

SpecSilent == InitAgent /\ [][SilentNext]_vars

SpecSilentFair == SpecSilent /\ WF_vars(IdleLoopSteps)


(***************************************************************************)
(* C22: resilience of the beacon loop                                      *)
(***************************************************************************)
\* C22: no failure of a beacon, a task fetch, a task execution or a result
\* report ends the agent's beacon loop: the step in which something fails
\* leaves the loop running, the loop never returns, every iteration comes
\* back to the next beacon unless the agent has exited, and the agent exits
\* only in the execution of a SELF_DESTRUCT task
C22_BeaconLoopResilience ==
    /\ [][last_failure' # "none" => agent_at' \notin {"exited", "returned"}]_vars
    /\ [][agent_at' = "exited" /\ agent_at # "exited" =>
            /\ agent_at = "execute"
            /\ fetched[task_index].type = "SELF_DESTRUCT"
            /\ exit_cause' = "SELF_DESTRUCT"]_vars
    /\ [](agent_at # "returned")
    /\ (agent_at \in {"fetch", "execute", "report", "sleep", "backoff"})
          ~> (agent_at \in {"beacon", "exited"})

\* the report of the first task's result has failed and the loop is about
\* to execute the second task
C22_Witness ==
    /\ last_failure = "report"
    /\ agent_at = "execute"
    /\ task_index = 2

(***************************************************************************)
(* C25: the dead man's switch                                              *)
(***************************************************************************)
\* the last successful contact with the C2, or the start of the agent
LastContact == IF last_beacon = NoTime THEN 0 ELSE last_beacon

\* C25: once more than 24 hours have passed without a successful beacon,
\* the running agent eventually executes the kill switch
C25_DeadMansSwitchFires ==
    (agent_at # "exited" /\ check_dead_mans_switch(LastContact))
        ~> (exit_cause = "kill_switch")

(***************************************************************************)
(* C30: the order of the tasks of one fetch                                *)
(***************************************************************************)
\* execute and report, task by task, in the order of the fetched list
InFetchedOrder ==
    [k \in 1..(2 * Len(fetched)) |->
        [step |-> IF k % 2 = 1 THEN "execute" ELSE "report",
         id |-> fetched[(k + 1) \div 2].id]]

\* C30: the tasks one fetch returned are in ascending order of creation,
\* and what the agent has executed and reported of them so far is a prefix
\* of: execute the first, report the first, execute the second, ...
C30_TaskOrdering ==
    /\ \A i, j \in DOMAIN fetched :
          i < j => tasks[fetched[i].id].created_at < tasks[fetched[j].id].created_at
    /\ Len(journal) <= 2 * Len(fetched)
    /\ journal = SubSeq(InFetchedOrder, 1, Len(journal))
    /\ agent_at = "execute" => Len(journal) = 2 * (task_index - 1)
    /\ agent_at = "report" => Len(journal) = 2 * task_index - 1

\* two tasks, the one created first with the greater id, both executed and
\* reported
C30_Witness ==
    /\ Len(fetched) = 2
    /\ fetched[1].id = "t2"
    /\ fetched[2].id = "t1"
    /\ Len(journal) = 4



(***************************************************************************)
(* VirtualBLEConnection and VirtualBLEDevice (virtual_ble.py): one         *)
(* connection to one virtual device that has a simulator behind it         *)
(***************************************************************************)
MaxCallbacks == 2   \* callbacks registered at one time
MaxHandled == 2     \* writes handed to the simulator, in one behaviour

NOTIFY_CHAR_UUID == "0000ffe1"   \* config.NOTIFY_CHAR_UUID (first group)
WRITE_CHAR_UUID == "0000ffe2"    \* config.WRITE_CHAR_UUID (first group)
DEVICE_NAME_UUID == "00002a00"   \* config.DEVICE_NAME_UUID (first group)

\* the uuids a caller passes, one of them unknown to the device
Uuids == {NOTIFY_CHAR_UUID, WRITE_CHAR_UUID, "0000ffff"}

\* name.encode() of the device, and what callers write
DeviceName == <<71, 111, 50>>
WrittenData == {<<82, 1>>}

\* what the simulator's handle_ble_write answers: nothing, or a frame
SimulatorResponses == {<<>>, <<81, 1>>}

\* the callbacks callers register
Callbacks == {"on_notify"}

\* the device's fields a connection can reach
DeviceState == <<characteristics, notification_callbacks, handled>>

\* the outcome of a connection call; written_to is the characteristic a
\* write_gatt_char call named
BleCall(op, written_to, raised, returned) ==
    [op |-> op, written_to |-> written_to, connected |-> is_connected, raised |-> raised,
     returned |-> returned, device_changed |-> DeviceState' # DeviceState]

NotBle == <<c2vars, simvars, purevars, trackervars, propvars, agentvars,
            testvars, coordvars, sessionvars, pollvars>>

\* VirtualBLEConnection.connect
connect ==
    /\ is_connected' = TRUE
    /\ device_connected' = TRUE
    /\ UNCHANGED DeviceState
    /\ ble_out' = BleCall("connect", ABSENT, FALSE, <<>>)
    /\ UNCHANGED NotBle

\* VirtualBLEConnection.disconnect
disconnect ==
    /\ is_connected' = FALSE
    /\ device_connected' = FALSE
    /\ UNCHANGED DeviceState
    /\ ble_out' = BleCall("disconnect", ABSENT, FALSE, <<>>)
    /\ UNCHANGED NotBle

\* write_characteristic without `if response:`: the callbacks are called
\* whatever the simulator answered
write_gatt_char_without_response_test ==
    \E uuid \in Uuids, data \in WrittenData, response \in SimulatorResponses :
        /\ IF ~is_connected
           THEN /\ UNCHANGED DeviceState
                /\ ble_out' = BleCall("write_gatt_char", uuid, TRUE, <<>>)
           ELSE /\ characteristics' =
                      [u \in DOMAIN characteristics \cup {uuid} |->
                          IF u = uuid THEN data ELSE characteristics[u]]
                /\ IF uuid = WRITE_CHAR_UUID
                   THEN /\ Len(handled) < MaxHandled
                        /\ handled' = Append(handled,
                               [data |-> data, response |-> response,
                                notified |-> notification_callbacks])
                   ELSE /\ response = <<>>
                        /\ UNCHANGED handled
                /\ UNCHANGED notification_callbacks
                /\ ble_out' = BleCall("write_gatt_char", uuid, FALSE, <<>>)
        /\ UNCHANGED <<is_connected, device_connected, NotBle>>

\* write_gatt_char, with VirtualBLEDevice.write_characteristic: the bytes
\* are stored; a write to the write characteristic goes to the simulator,
\* whose response, if any, is passed to every registered callback
write_gatt_char ==
    \E uuid \in Uuids, data \in WrittenData, response \in SimulatorResponses :
        /\ IF ~is_connected
           THEN /\ UNCHANGED DeviceState
                /\ ble_out' = BleCall("write_gatt_char", uuid, TRUE, <<>>)
           ELSE /\ characteristics' =
                      [u \in DOMAIN characteristics \cup {uuid} |->
                          IF u = uuid THEN data ELSE characteristics[u]]
                /\ IF uuid = WRITE_CHAR_UUID
                   THEN /\ Len(handled) < MaxHandled
                        /\ handled' = Append(handled,
                               [data |-> data, response |-> response,
                                notified |-> IF response = <<>> THEN <<>>
                                             ELSE notification_callbacks])
                   ELSE /\ response = <<>>
                        /\ UNCHANGED handled
                /\ UNCHANGED notification_callbacks
                /\ ble_out' = BleCall("write_gatt_char", uuid, FALSE, <<>>)
        /\ UNCHANGED <<is_connected, device_connected, NotBle>>

\* read_gatt_char, with VirtualBLEDevice.read_characteristic
read_gatt_char ==
    \E uuid \in Uuids :
        /\ UNCHANGED DeviceState
        /\ ble_out' = IF ~is_connected
                      THEN BleCall("read_gatt_char", ABSENT, TRUE, <<>>)
                      ELSE BleCall("read_gatt_char", ABSENT, FALSE,
                                   IF uuid \in DOMAIN characteristics
                                   THEN characteristics[uuid] ELSE <<>>)
        /\ UNCHANGED <<is_connected, device_connected, NotBle>>

\* start_notify, with VirtualBLEDevice.start_notify
start_notify ==
    \E uuid \in Uuids, callback \in Callbacks :
        /\ IF ~is_connected
           THEN /\ UNCHANGED DeviceState
                /\ ble_out' = BleCall("start_notify", ABSENT, TRUE, <<>>)
           ELSE /\ Len(notification_callbacks) < MaxCallbacks
                /\ notification_callbacks' = Append(notification_callbacks, callback)
                /\ UNCHANGED <<characteristics, handled>>
                /\ ble_out' = BleCall("start_notify", ABSENT, FALSE, <<>>)
        /\ UNCHANGED <<is_connected, device_connected, NotBle>>

\* stop_notify, with VirtualBLEDevice.stop_notify: no check of the
\* connection, every callback is dropped
stop_notify ==
    \E uuid \in Uuids :
        /\ notification_callbacks' = <<>>
        /\ UNCHANGED <<characteristics, handled>>
        /\ ble_out' = BleCall("stop_notify", ABSENT, FALSE, <<>>)
        /\ UNCHANGED <<is_connected, device_connected, NotBle>>

BleNext ==
    \/ connect
    \/ disconnect
    \/ write_gatt_char
    \/ read_gatt_char
    \/ start_notify
    \/ stop_notify

\* VirtualBLEDevice.__init__ and VirtualBLEConnection.__init__
InitBle ==
    /\ C2Init /\ SimDefault /\ PureIdle /\ TrackerIdle /\ PropIdle
    /\ AgentIdle /\ TestIdle /\ CoordIdle /\ SessionIdle /\ PollIdle
    /\ is_connected = FALSE
    /\ device_connected = FALSE
    /\ characteristics = (NOTIFY_CHAR_UUID :> <<>> @@ WRITE_CHAR_UUID :> <<>>
                          @@ DEVICE_NAME_UUID :> DeviceName)
    /\ notification_callbacks = <<>>
    /\ handled = <<>>
    /\ ble_out = [op |-> "__init__", written_to |-> ABSENT, connected |-> FALSE,
                  raised |-> FALSE,
                  returned |-> <<>>, device_changed |-> FALSE]

SpecBle == InitBle /\ [][BleNext]_vars

(***************************************************************************)
(* C23: connection calls without a connection                              *)
(***************************************************************************)
\* C23: write_gatt_char, read_gatt_char, start_notify and stop_notify,
\* called before connect() or after disconnect(), fail with the
\* not-connected error and change nothing on the device
C23_NotConnectedFails ==
    (/\ ble_out.op \in {"write_gatt_char", "read_gatt_char", "start_notify",
                        "stop_notify"}
     /\ ~ble_out.connected)
        => ble_out.raised /\ ~ble_out.device_changed



(***************************************************************************)
(* SimulatorCoordinator (sim_coordinator.py): the registered nodes and     *)
(* get_propagation_status                                                  *)
(***************************************************************************)
MaxNodes == 3   \* simulators registered in one behaviour

\* what rpc_call(node, "status") can give: None after a failed call, or the
\* node's JSON object, with is_infected true or false or without the key
Dict(flag) == [kind |-> "dict", is_infected |-> flag]
Replies == {[kind |-> "None", is_infected |-> ABSENT],
            Dict("true"), Dict("false"), Dict(ABSENT)}

\* `result and isinstance(result, dict) and result.get("is_infected")`
CountsAsInfected(result) ==
    /\ result.kind \notin {"None", "empty dict"}
    /\ result.kind = "dict"
    /\ result.is_infected \notin {ABSENT, "false"}

\* a / b of Python for integers, kept as the exact quotient; b = 0 raises
Quotient(a, b) ==
    IF b = 0 THEN [raised |-> "ZeroDivisionError", num |-> 0, den |-> 1]
    ELSE [raised |-> "no", num |-> a, den |-> b]

\* x * 100
TimesHundred(x) == [x EXCEPT !.num = @ * 100]

\* the int 0
Zero == [raised |-> "no", num |-> 0, den |-> 1]

RECURSIVE CountInfected(_)
CountInfected(replies) ==
    IF replies = <<>> THEN 0
    ELSE (IF CountsAsInfected(replies[1]) THEN 1 ELSE 0)
         + CountInfected(Tail(replies))

\* a percentage computed without the guard on the empty list
percentage_unguarded(infected_count, nodes) ==
    TimesHundred(Quotient(infected_count, Len(nodes)))

\* `(infected_count / len(self.simulators) * 100) if self.simulators else 0`
percentage(infected_count, nodes) ==
    IF nodes # <<>>
    THEN TimesHundred(Quotient(infected_count, Len(nodes)))
    ELSE Zero

NotCoord == <<c2vars, simvars, purevars, trackervars, propvars, agentvars,
              blevars, testvars, sessionvars, pollvars>>

\* register_simulator
register_simulator ==
    /\ Len(simulators) < MaxNodes
    /\ simulators' = Append(simulators, [robot_id |-> Len(simulators) + 1,
                                         status |-> "ready"])
    /\ metrics' = [metrics EXCEPT !.total_robots = @ + 1]
    /\ UNCHANGED <<status_out, NotCoord>>

\* get_propagation_status: one status call per node (a failed call marks
\* the node and gives None), the count, the metrics, the returned dict
get_propagation_status ==
    \E replies \in [1..Len(simulators) -> Replies] :
        LET infected_count == CountInfected(replies)
        IN  /\ simulators' = [i \in 1..Len(simulators) |->
                                 IF replies[i].kind = "None"
                                 THEN [simulators[i] EXCEPT !.status = "error"]
                                 ELSE simulators[i]]
            /\ metrics' = [metrics EXCEPT !.infected_robots = infected_count]
            /\ status_out' = [called |-> TRUE,
                              replies |-> replies,
                              total |-> Len(simulators),
                              infected |-> infected_count,
                              percentage |-> percentage(infected_count, simulators)]
            /\ UNCHANGED NotCoord

CoordNext ==
    \/ register_simulator
    \/ get_propagation_status

\* SimulatorCoordinator.__init__
InitCoord ==
    /\ C2Init /\ SimDefault /\ PureIdle /\ TrackerIdle /\ PropIdle
    /\ AgentIdle /\ BleIdle /\ TestIdle /\ SessionIdle /\ PollIdle
    /\ simulators = <<>>
    /\ metrics = [total_robots |-> 0, infected_robots |-> 0]
    /\ status_out = [called |-> FALSE]

SpecCoord == InitCoord /\ [][CoordNext]_vars

(***************************************************************************)
(* C27: the coordinator's aggregation                                      *)
(***************************************************************************)
\* the nodes whose status call answered with is_infected set
Reporting(replies) ==
    {i \in DOMAIN replies :
        replies[i].kind = "dict" /\ replies[i].is_infected = "true"}

\* C27: get_propagation_status never raises on the division; with no node
\* registered it returns percentage 0, and with k of the n registered nodes
\* reporting is_infected it returns total n, infected k and percentage
\* k/n*100, a node whose status call failed not being counted
C27_Aggregation ==
    status_out.called =>
        LET n == Len(status_out.replies)
            k == Cardinality(Reporting(status_out.replies))
        IN  /\ status_out.percentage.raised = "no"
            /\ status_out.total = n
            /\ status_out.infected = k
            /\ n = 0 => status_out.percentage.num = 0
            /\ n > 0 => status_out.percentage.num * n
                            = k * 100 * status_out.percentage.den
            /\ \A i \in DOMAIN status_out.replies :
                  status_out.replies[i].kind = "None" => i \notin Reporting(status_out.replies)

\* three nodes: one reports is_infected, the call to one has failed, one
\* reports that it is clean
C27_Witness ==
    /\ status_out.called
    /\ Len(status_out.replies) = 3
    /\ status_out.replies[1] = Dict("true")
    /\ status_out.replies[2].kind = "None"
    /\ status_out.replies[3] = Dict("false")
    /\ status_out.infected = 1
    /\ status_out.percentage = [raised |-> "no", num |-> 100, den |-> 3]

\* no node registered: percentage 0
C27_WitnessNoNodes ==
    /\ status_out.called
    /\ status_out.total = 0
    /\ status_out.percentage = Zero



(***************************************************************************)
(* TestPropagationSimulation (test_worm.py): simulate_propagation over a   *)
(* SimulatedRobotEnvironment of ten robots                                 *)
(***************************************************************************)
duration == 3      \* simulate_propagation(duration), in sleeps of 5 seconds
num_robots == 10   \* SimulatedRobotEnvironment(num_robots=10)
range_limit == 2   \* get_nearby_robots(robot.address, range_limit=2)

\* f"AA:BB:CC:DD:EE:{i:02X}" for i in range(num_robots)
env_robots == [i \in 1..num_robots |->
              <<"AA:BB:CC:DD:EE:00", "AA:BB:CC:DD:EE:01", "AA:BB:CC:DD:EE:02",
                "AA:BB:CC:DD:EE:03", "AA:BB:CC:DD:EE:04", "AA:BB:CC:DD:EE:05",
                "AA:BB:CC:DD:EE:06", "AA:BB:CC:DD:EE:07", "AA:BB:CC:DD:EE:08",
                "AA:BB:CC:DD:EE:09">>[i]]

RobotAddresses == {env_robots[i] : i \in 1..num_robots}

\* a get_nearby_robots that gives the robots next to the current one in
\* the list
get_nearby_robots_by_position(current_robot, limit) ==
    LET at == CHOOSE i \in 1..num_robots : env_robots[i] = current_robot
        next == SelectSeq([k \in 1..limit |-> at + k], LAMBDA i : i <= num_robots)
    IN  [k \in 1..Len(next) |-> env_robots[next[k]]]

\* get_nearby_robots: available = every robot but the current one, in the
\* order of the list; available[:range_limit]
get_nearby_robots(current_robot, limit) ==
    LET available == SelectSeq(env_robots, LAMBDA r : r # current_robot)
    IN  SubSeq(available, 1, IF limit < Len(available) THEN limit ELSE Len(available))

\* get_infection_rate: len(infected_robots) / len(robots), as the quotient
get_infection_rate(env_infected) ==
    [num |-> Cardinality(env_infected), den |-> num_robots]

\* rate >= 1.0
AtLeastOne(rate) == rate.num >= rate.den

\* where the for loops go after robot r is done: the next robot of the list
\* that is in the infected set by then and has a robot nearby, or the end
\* of the iteration
NextRobot(r, env_infected) ==
    LET later == {x \in (r + 1)..num_robots :
                     /\ env_robots[x] \in env_infected
                     /\ get_nearby_robots(env_robots[x], range_limit) # <<>>}
    IN  IF later = {} THEN [pc |-> "end", robot |-> 0, target |-> 0]
        ELSE [pc |-> "attempt",
              robot |-> CHOOSE x \in later : \A y \in later : x <= y,
              target |-> 1]

\* after the target at the cursor: the next of the nearby robots, or the
\* next infected robot
NextTarget(env_infected) ==
    IF test_at.target < Len(get_nearby_robots(env_robots[test_at.robot], range_limit))
    THEN [test_at EXCEPT !.target = @ + 1]
    ELSE NextRobot(test_at.robot, env_infected)

\* the target the inner loop is at
Target == get_nearby_robots(env_robots[test_at.robot], range_limit)[test_at.target]

NotTest == <<c2vars, simvars, purevars, propvars, agentvars, blevars, coordvars,
             sessionvars, pollvars>>

\* InfectionTracker(), then patient zero robots[0] marked in the
\* environment and in the tracker; iteration = 0
PatientZero ==
    /\ test_at.pc = "start"
    /\ \E save_ok \in BOOLEAN : mark_infected(env_robots[1], save_ok)
    /\ infected_robots' = infected_robots \cup {env_robots[1]}
    /\ iteration' = 0
    /\ test_at' = [pc |-> "while", robot |-> 0, target |-> 0]
    /\ UNCHANGED <<elapsed, newly_infected, results, clock, tracker_calls, NotTest>>

\* while time.time() - start_time < duration: iteration += 1, an empty
\* newly_infected, and the for loop comes to the first infected robot
IterationStarts ==
    /\ test_at.pc = "while"
    /\ elapsed < duration
    /\ iteration' = iteration + 1
    /\ newly_infected' = <<>>
    /\ test_at' = NextRobot(0, infected_robots)
    /\ UNCHANGED <<infected_robots, elapsed, results, trackervars, NotTest>>

\* the duration is over: the loop ends
DurationElapsed ==
    /\ test_at.pc = "while"
    /\ elapsed >= duration
    /\ test_at' = [pc |-> "done", robot |-> 0, target |-> 0]
    /\ UNCHANGED <<infected_robots, iteration, elapsed, newly_infected, results,
                   trackervars, NotTest>>

\* the tracker has the target as infected: no attempt
TargetSkipped ==
    /\ test_at.pc = "attempt"
    /\ tracker_is_infected(Target)
    /\ test_at' = NextTarget(infected_robots)
    /\ UNCHANGED <<infected_robots, iteration, elapsed, newly_infected, results,
                   trackervars, NotTest>>

\* random.random() < 0.7: the target is marked in the environment and in
\* the tracker, and joins newly_infected
AttemptSucceeds ==
    /\ test_at.pc = "attempt"
    /\ ~tracker_is_infected(Target)
    /\ infected_robots' = infected_robots \cup {Target}
    /\ \E save_ok \in BOOLEAN : mark_infected(Target, save_ok)
    /\ newly_infected' = Append(newly_infected, Target)
    /\ test_at' = NextTarget(infected_robots')
    /\ UNCHANGED <<iteration, elapsed, results, clock, tracker_calls, NotTest>>

\* random.random() >= 0.7: tracker.mark_failed
AttemptFails ==
    /\ test_at.pc = "attempt"
    /\ ~tracker_is_infected(Target)
    /\ \E save_ok \in BOOLEAN : mark_failed(Target, save_ok)
    /\ test_at' = NextTarget(infected_robots)
    /\ UNCHANGED <<infected_robots, iteration, elapsed, newly_infected, results,
                   clock, tracker_calls, NotTest>>

\* the end of an iteration: the entry of results if a robot was infected,
\* the break at full infection, else the sleep of 5 seconds
IterationEnds ==
    /\ test_at.pc = "end"
    /\ results' = IF newly_infected # <<>>
                  THEN Append(results,
                              [iteration |-> iteration,
                               newly_infected |-> Len(newly_infected),
                               total_infected |-> Cardinality(infected_robots),
                               infection_rate |-> get_infection_rate(infected_robots)])
                  ELSE results
    /\ IF AtLeastOne(get_infection_rate(infected_robots))
       THEN /\ test_at' = [pc |-> "done", robot |-> 0, target |-> 0]
            /\ UNCHANGED <<elapsed, clock>>
       ELSE /\ test_at' = [pc |-> "while", robot |-> 0, target |-> 0]
            /\ elapsed' = elapsed + 1
            /\ clock' = clock + 1
    /\ UNCHANGED <<infected_robots, iteration, newly_infected, infected, failed,
                   infection_times, history_file, tracker_out, marked,
                   failures_since, carried, tracker_calls, NotTest>>

TestNext ==
    \/ PatientZero
    \/ IterationStarts
    \/ DurationElapsed
    \/ TargetSkipped
    \/ AttemptSucceeds
    \/ AttemptFails
    \/ IterationEnds

\* TestPropagationSimulation.__init__, and simulate_propagation up to
\* `tracker = InfectionTracker()`, on a machine with or without a history
\* file
InitTest ==
    /\ C2Init /\ SimDefault /\ PureIdle /\ PropIdle
    /\ AgentIdle /\ BleIdle /\ CoordIdle /\ SessionIdle /\ PollIdle
    /\ history_file \in {NoHistoryFile, StoredHistory}
    /\ infected = IF history_file.exists THEN history_file.infected ELSE {}
    /\ failed = IF history_file.exists THEN history_file.failed ELSE <<>>
    /\ infection_times = <<>>
    /\ clock = 0
    /\ tracker_out = [op |-> "__init__", address |-> NULL, result |-> FALSE, at |-> 0]
    /\ marked = <<>>
    /\ failures_since = [a \in RobotAddresses |-> 0]
    /\ carried = [a \in RobotAddresses |-> GetOr0(failed, a)]
    /\ tracker_calls = 0
    /\ infected_robots = {}
    /\ iteration = 0
    /\ elapsed = 0
    /\ newly_infected = <<>>
    /\ results = <<>>
    /\ test_at = [pc |-> "start", robot |-> 0, target |-> 0]

SpecTest == InitTest /\ [][TestNext]_vars

\* the simulation runs on until its loop ends
SpecTestFair == SpecTest /\ WF_vars(TestNext)

(***************************************************************************)
(* C26: the propagation simulation                                         *)
(***************************************************************************)
\* the recorded total_infected never goes down from one entry to the next
TotalNonDecreasing ==
    \A i \in 1..Len(results) : \A j \in i..Len(results) :
        results[i].total_infected <= results[j].total_infected

\* the loop has ended in an iteration that brought the fraction to 1.0
EndedAtFullInfection ==
    /\ test_at.pc = "done"
    /\ AtLeastOne(get_infection_rate(infected_robots))

OnlyFirstThree ==
    /\ infected_robots \subseteq {env_robots[1], env_robots[2], env_robots[3]}
    /\ ~AtLeastOne(get_infection_rate(infected_robots))

\* a run in which every attempt has succeeded and which has ended: three
\* robots infected, the loop ended by the duration
AllAttemptsSucceeded ==
    /\ test_at.pc = "done"
    /\ failed = <<>>
    /\ Len(results) = 1
    /\ results[1].total_infected = 3
    /\ elapsed = duration

(***************************************************************************)
(* C40: how far the propagation simulation can spread                      *)
(***************************************************************************)
\* C40: with 10 robots and 2 nearby robots per infected robot, the infected
\* set never holds a robot other than the first three of the list, so the
\* infection fraction never exceeds 0.3, and the loop can end only when the
\* duration has elapsed
C40_ConfinedToFirstThree ==
    /\ infected_robots \subseteq {env_robots[1], env_robots[2], env_robots[3]}
    /\ get_infection_rate(infected_robots).num * 10
           <= 3 * get_infection_rate(infected_robots).den
    /\ \A i \in 1..Len(results) :
           results[i].infection_rate.num * 10 <= 3 * results[i].infection_rate.den
    /\ test_at.pc = "done" => elapsed >= duration

\* the simulation has ended with the first three robots infected, the second
\* and third having themselves looked for robots nearby
C40_Witness ==
    /\ test_at.pc = "done"
    /\ elapsed >= duration
    /\ infected_robots = {env_robots[1], env_robots[2], env_robots[3]}
    /\ results # <<>>
    /\ results[Len(results)].total_infected = 3
    /\ iteration >= 2

(***************************************************************************)
(* C32: the tracker's history file                                         *)
(***************************************************************************)
\* the history file holds the in-memory infected set and failure map
FileEqualsMemory ==
    /\ history_file.exists
    /\ history_file.infected = infected
    /\ history_file.failed = failed

\* the step is a mark_infected or mark_failed call
MarkCalled ==
    /\ tracker_calls' # tracker_calls
    /\ tracker_out'.op \in {"mark_infected", "mark_failed"}

\* the step is the construction of a new tracker
Constructed ==
    /\ tracker_calls' # tracker_calls
    /\ tracker_out'.op = "__init__"

\* a tracker constructed over a file that held the state of the one before
\* it: the same infected set and failure counts, no infection times
SameAfterConstruction ==
    /\ infected' = infected
    /\ failed' = failed
    /\ infection_times' = <<>>

\* should_rate_limit is false on a tracker that has recorded no infection
NoLimitBeforeInfections ==
    (tracker_out.op = "should_rate_limit" /\ marked = <<>>) => ~tracker_out.result

HandshakePacket == create_packet(1, <<0, 0>> \o HANDSHAKE_SECRET)

\* the last call was a write of the codec's handshake packet
HandshakeWritten ==
    /\ sim_out.kind = "write"
    /\ frame = decrypt_data(HandshakePacket)

\* C33: the handshake packet built by create_packet (magic 0x52, declared
\* length len(data_bytes) + 3, instruction 1, two placeholder bytes and
\* 'unitree', checksum) is answered by the simulator with the success
\* response [0x01]
C33_HandshakeAccepted ==
    HandshakeWritten => sim_out.response = _create_response(1, <<1>>)

\* what the simulator answers instead: the failure response [0x00]
HandshakeRefused ==
    HandshakeWritten => sim_out.response = _create_response(1, <<0>>)

(***************************************************************************)
(* One simulator after another on the same configuration: the packets a    *)
(* simulator handles with and without a handshake before them              *)
(***************************************************************************)
\* a handshake the simulator accepts (declared length = frame length)
AcceptedHandshake == RawFrame(82, 13, 1, <<0, 0>> \o HANDSHAKE_SECRET)

SessionWrites ==
    {AcceptedHandshake,
     create_packet(3, SsidCurlPython),
     create_packet(4, CmdId)}

\* what the step shows of the handling of one packet: the packet, the
\* infected flag and the handshake history before it, whether the sandbox
\* ran a command and which, what the backend returned and whether the log
\* could be written, the response, and the infected flag after it
Observation ==
    LET ran == Len(backend_calls') > Len(backend_calls)
    IN  [packet     |-> frame',
         infected   |-> is_infected,
         handshaken |-> handshaken,
         ran        |-> ran,
         executed   |-> IF ran THEN backend_calls'[Len(backend_calls')].command
                        ELSE <<>>,
         exit_code  |-> IF ran THEN command_history'[Len(command_history')].exit_code
                        ELSE 0,
         log_ok     |-> IF ran THEN Len(log_file') > Len(log_file) ELSE TRUE,
         response   |-> sim_out'.response,
         infects    |-> is_infected']

NotSession == <<c2vars, purevars, trackervars, propvars, agentvars, blevars,
                testvars, coordvars, pollvars>>

\* handle_ble_write, with the history of the session
SessionWrite ==
    \E data \in SessionWrites :
        /\ handle_ble_write(data)
        /\ handshaken' = (handshaken \/ (frame'[3] = 1 /\
                              sim_out'.response = _create_response(1, <<1>>)))
        /\ observed' = IF frame'[3] \in {3, 4}
                       THEN observed \cup {Observation}
                       ELSE observed
        /\ UNCHANGED <<sim_runs, NotSession>>

\* force_infect on the simulator
SessionForceInfect ==
    /\ force_infect
    /\ UNCHANGED <<sessionvars, NotSession>>

\* the process is started again, once: UnitreeSimulator.__init__ with the
\* same serial and configuration; the CommandSandbox is new, sandbox.log is
\* the file of the simulator before
NewSimulator ==
    /\ sim_runs = 1
    /\ sim_runs' = sim_runs + 1
    /\ handshaken' = FALSE
    /\ is_infected' = FALSE
    /\ infection_time' = NoTime
    /\ worm_process' = 0
    /\ spawned' = {}
    /\ command_history' = <<>>
    /\ backend_calls' = <<>>
    /\ sim_clock' = 0
    /\ frame' = <<>>
    /\ sim_out' = Outcome("init", NoResponse, "none", <<>>)
    /\ n_exec' = 0
    /\ n_blocked' = 0
    /\ UNCHANGED <<serial, sandbox_type, allow_propagation, log_file, observed,
                   NotSession>>

SessionNext ==
    \/ SessionWrite
    \/ SessionForceInfect
    \/ NewSimulator

\* a new simulator, no packet handled yet
InitSession ==
    /\ C2Init /\ SimDefault /\ PureIdle /\ TrackerIdle /\ PropIdle
    /\ AgentIdle /\ BleIdle /\ TestIdle /\ CoordIdle /\ PollIdle
    /\ handshaken = FALSE
    /\ observed = {}
    /\ sim_runs = 1

SpecSession == InitSession /\ [][SessionNext]_vars

(***************************************************************************)
(* C34: no handshake or session state                                      *)
(***************************************************************************)
\* the same packet, handled with the infected flag in the same state
SameRequest(o1, o2) ==
    /\ o1.packet = o2.packet
    /\ o1.infected = o2.infected

\* the backend returned the same and the log write went the same way
SameEnvironment(o1, o2) ==
    /\ o1.exit_code = o2.exit_code
    /\ o1.log_ok = o2.log_ok

TerminatedByCleanup == IF worm_process # 0 THEN {worm_process} ELSE {}

\* C35: over any sequence of WiFi-config writes and force_infect calls,
\* infection_time is set only by the first infection and at most one worm
\* agent process is ever spawned, so cleanup terminates every agent process
\* the simulator started
C35_SingleInfection ==
    /\ [][infection_time # NoTime => infection_time' = infection_time]_vars
    /\ [](Cardinality(spawned) <= 1)
    /\ [](spawned \subseteq TerminatedByCleanup)

\* what holds of the WiFi-config path alone: a write never infects a
\* simulator that is infected already
WifiInfectsOnce ==
    [][(sim_out'.kind = "write" /\ is_infected)
          => UNCHANGED <<infection_time, worm_process, spawned>>]_vars

\* two agent processes were started, and cleanup would terminate the second only
TwoAgentsSpawned ==
    /\ Cardinality(spawned) = 2
    /\ TerminatedByCleanup = {2}

(***************************************************************************)
(* C36: a command sent without a robot_id                                  *)
(***************************************************************************)
\* the step handled an accepted operator command that named no robot
WildcardCommandAccepted ==
    /\ req'.endpoint = "operator/command"
    /\ req'.body.robot_id = ABSENT
    /\ resp'.status = 200

\* what the robot's next task poll would return holds an EXECUTE_CMD task
\* with the command
NextPollDelivers(ts, robot_id, command) ==
    LET poll == get_pending_tasks(ts, robot_id).returned
    IN  \E i \in 1..Len(poll) :
           /\ poll[i].type = "EXECUTE_CMD"
           /\ poll[i].params = <<"command", command>>

\* C36: a command submitted to the operator command endpoint without a
\* robot_id is delivered as an EXECUTE_CMD task to every robot registered at
\* that moment, on that robot's next task poll
C36_WildcardCommandDelivery ==
    [][WildcardCommandAccepted =>
          \A robot_id \in DOMAIN robots' :
              NextPollDelivers(tasks', robot_id, req'.body.command)]_vars

\* what the endpoint stores instead: one task whose robot_id is the text "*"
StoredForAsterisk ==
    [][WildcardCommandAccepted =>
          /\ Len(resp'.task_ids) = 1
          /\ tasks'[resp'.task_ids[1]].robot_id = "*"
          /\ tasks'[resp'.task_ids[1]].status = "pending"]_vars

\* a robot is registered, and a command sent without a robot_id has been
\* stored for "*"
WildcardCommandStored ==
    /\ req.endpoint = "operator/command"
    /\ req.body.robot_id = ABSENT
    /\ resp.status = 200
    /\ DOMAIN robots # {}

(***************************************************************************)
(* get_pending_tasks beside create_task calls on other connections         *)
(* (c2_server.py 43-45, 160-206)                                           *)
(*                                                                         *)
(* Every database call opens its own sqlite3 connection to the file        *)
(* DB_PATH.  get_pending_tasks runs a SELECT, fetches all its rows (the    *)
(* read lock is released: no transaction is open before the first DML      *)
(* statement), and then runs an UPDATE and commits.  An INSERT committed   *)
(* on another connection can therefore land between the two statements.    *)
(***************************************************************************)
MaxCreated == 3   \* create_task calls beside the polls, in one behaviour

PollRobots == {AgentId, "Go2_SIM_0002"}
PollTypes  == {"EXECUTE", "SELF_DESTRUCT"}

NotPoll == <<robots, beacons, events, req, resp, delivered, simvars, purevars,
             trackervars, propvars, agentvars, blevars, testvars, coordvars,
             sessionvars>>

\* the ids of the task dicts a poll returns
IdsOf(list) == {list[i].id : i \in 1..Len(list)}

\* create_task on another connection: INSERT and commit
ConcurrentCreateTask ==
    \E robot_id \in PollRobots, task_type \in PollTypes :
        /\ now < MaxCreated
        /\ Cardinality(DOMAIN tasks) < MaxTasks
        /\ tasks' = db_create_task(tasks, NextToken(tasks), robot_id, task_type,
                                   "{}", now)
        /\ now' = now + 1
        /\ UNCHANGED <<pollvars, NotPoll>>

\* get_pending_tasks, first statement: the SELECT and fetchall build the list
\* that will be returned
PollSelects ==
    \E robot_id \in PollRobots :
        /\ poll_at.pc = "idle"
        /\ poll_at' = [pc |-> "selected", robot_id |-> robot_id]
        /\ selected' = get_pending_tasks(tasks, robot_id).returned
        /\ marked_sent' = {}
        /\ UNCHANGED <<tasks, now, NotPoll>>

\* get_pending_tasks, second statement: the UPDATE marks every row of the
\* robot that is pending now, then commit, close, return tasks
PollUpdates ==
    /\ poll_at.pc = "selected"
    /\ marked_sent' = PendingIds(tasks, poll_at.robot_id)
    /\ tasks' = get_pending_tasks(tasks, poll_at.robot_id).table
    /\ poll_at' = [poll_at EXCEPT !.pc = "returned"]
    /\ UNCHANGED <<selected, now, NotPoll>>

\* the caller has the list; the next poll may start
PollDone ==
    /\ poll_at.pc = "returned"
    /\ poll_at' = [pc |-> "idle", robot_id |-> ABSENT]
    /\ selected' = <<>>
    /\ marked_sent' = {}
    /\ UNCHANGED <<tasks, now, NotPoll>>

PollNext ==
    \/ ConcurrentCreateTask
    \/ PollSelects
    \/ PollUpdates
    \/ PollDone

InitPoll ==
    /\ C2Init /\ SimDefault /\ PureIdle /\ TrackerIdle /\ PropIdle
    /\ AgentIdle /\ BleIdle /\ TestIdle /\ CoordIdle /\ SessionIdle
    /\ poll_at = [pc |-> "idle", robot_id |-> ABSENT]
    /\ selected = <<>>
    /\ marked_sent = {}

SpecPoll == InitPoll /\ [][PollNext]_vars

\* C37: when create_task calls for a robot interleave with a
\* get_pending_tasks call for the same robot on separate connections, every
\* task whose status that poll changes to 'sent' is in the list the poll
\* returns
C37_NoTaskLostToConcurrentPoll ==
    poll_at.pc = "returned" => marked_sent \subseteq IdsOf(selected)

\* what the code does keep: every task the poll returns was marked sent by it
ReturnedWereMarked ==
    poll_at.pc = "returned" => IdsOf(selected) \subseteq marked_sent

\* a poll has returned and a task it marked sent is not in its list: the task
\* is 'sent' in the table and no caller ever received it
TaskLostToPoll ==
    /\ poll_at.pc = "returned"
    /\ \E id \in marked_sent :
          /\ id \notin IdsOf(selected)
          /\ tasks[id].status = "sent"
          /\ tasks[id].robot_id = poll_at.robot_id

(***************************************************************************)
(* C31: a write to the write characteristic and its notification           *)
(***************************************************************************)
\* the step is a write_gatt_char call on a connected client to the protocol
\* write characteristic
WriteToProtocolCharacteristic ==
    /\ ble_out'.op = "write_gatt_char"
    /\ ble_out'.written_to = WRITE_CHAR_UUID
    /\ is_connected

\* the write just handled
LastHandled == handled[Len(handled)]

\* C31: each write to the protocol write characteristic on a connected
\* client invokes the simulator's packet handler exactly once, with the
\* written bytes, and before the write returns delivers the handler's
\* response exactly once to every registered notification callback; when the
\* handler produces no response no callback is invoked; no other call
\* invokes the handler
C31_WriteNotifiesEveryCallback ==
    [][IF WriteToProtocolCharacteristic
       THEN /\ ~ble_out'.raised
            /\ Len(handled') = Len(handled) + 1
            /\ SubSeq(handled', 1, Len(handled)) = handled
            /\ LastHandled'.data = characteristics'[WRITE_CHAR_UUID]
            /\ LastHandled'.notified =
                  IF LastHandled'.response = <<>> THEN <<>>
                  ELSE notification_callbacks
            /\ notification_callbacks' = notification_callbacks
       ELSE handled' = handled]_vars

\* one write was answered and both entries of the callback list got the
\* response; another write was not answered and nothing was called
C31_Witness ==
    /\ ble_out.op = "write_gatt_char"
    /\ ble_out.written_to = WRITE_CHAR_UUID
    /\ Len(notification_callbacks) = 2
    /\ \E i \in 1..Len(handled) :
          /\ handled[i].response # <<>>
          /\ handled[i].notified = notification_callbacks
    /\ \E j \in 1..Len(handled) :
          /\ handled[j].response = <<>>
          /\ handled[j].notified = <<>>

(***************************************************************************)
(* C38: a SELF_DESTRUCT task and the rest of its batch                     *)
(***************************************************************************)
\* the tasks fetched after the one under execution
AfterCurrent == {fetched[i].id : i \in (task_index + 1)..Len(fetched)}

\* the agent has terminated in self_destruct, and every later task of the
\* batch is still 'sent', neither executed nor reported
BatchTailStaysSent ==
    exit_cause = "SELF_DESTRUCT" =>
        /\ agent_at = "exited"
        /\ fetched[task_index].type = "SELF_DESTRUCT"
        /\ tasks[fetched[task_index].id].status = "sent"
        /\ \A id \in AfterCurrent :
              /\ tasks[id].status = "sent"
              /\ \A k \in 1..Len(journal) : journal[k].id # id

\* C38: a SELF_DESTRUCT task never reaches 'completed': the agent terminates
\* while executing it, before reporting, and every task after it in the same
\* fetched batch stays 'sent' without being executed or reported
C38_SelfDestructNeverCompleted ==
    /\ \A id \in DOMAIN tasks :
          tasks[id].task_type = "SELF_DESTRUCT" => tasks[id].status # "completed"
    /\ agent_at = "report" => fetched[task_index].type # "SELF_DESTRUCT"
    /\ BatchTailStaysSent

\* self_destruct raised before sys.exit(0), execute_task caught it, and the
\* failure was reported: the task is 'completed' and the agent runs on
SelfDestructCompleted ==
    /\ \E id \in DOMAIN tasks :
          /\ tasks[id].task_type = "SELF_DESTRUCT"
          /\ tasks[id].status = "completed"
    /\ agent_at \notin {"exited", "returned"}
    /\ exit_cause # "SELF_DESTRUCT"

\* the agent exited in self_destruct with a later task of the batch left
TerminatedWithTasksLeft ==
    /\ exit_cause = "SELF_DESTRUCT"
    /\ AfterCurrent # {}

(***************************************************************************)
(* C39: PROPAGATE_START after PROPAGATE_STOP                               *)
(***************************************************************************)
\* C39: after a PROPAGATE_STOP task has been executed and a later
\* PROPAGATE_START task has been executed, the radio propagation loop
\* eventually performs another scan (unless it is stopped again first)
C39_PropagateStartRestarts ==
    \A n \in 0..(MaxScans - 1) :
        [](~propagation_enabled /\ scan_count = n
              => [](propagation_enabled
                       => <>(scan_count > n \/ ~propagation_enabled)))

\* what the code does give: a flag set again before the loop has come back
\* to its check is as good as a flag never cleared, and the loop scans on
RestartedBeforeTheCheck ==
    \A n \in 0..(MaxScans - 1) :
        [](propagation_enabled /\ pc # "done" /\ scan_count = n
              => <>(scan_count > n \/ ~propagation_enabled))

\* propagate_ble has returned and PROPAGATE_START has set the flag: nothing
\* calls propagate_ble again
StartedAfterLoopEnded ==
    /\ pc = "done"
    /\ propagation_enabled
    /\ scan_count < MaxScans

====
